---------------------------- MODULE Spec2Model ----------------------------
(***************************************************************************)
(* Adaptive rating and word-selection engine of the vocabulary trainer     *)
(* (elo.js: EloRating, DynamicKFactorElo) and the answer handler that      *)
(* commits the new rating to State.                                        *)
(*                                                                         *)
(* JavaScript Numbers are modelled in fixed point: a real x is the integer *)
(* x * Scale.  Ratings, difficulties and K-factors are integers.           *)
(***************************************************************************)
EXTENDS Integers, Sequences, FiniteSets, TLC

(***************************************************************************)
(* Fixed-point arithmetic standing for IEEE double arithmetic.             *)
(***************************************************************************)
Scale == 1000000

Limb == 1000

Min(a, b) == IF a < b THEN a ELSE b

Abs(x) == IF x < 0 THEN -x ELSE x

RECURSIVE Pow10Int(_)
Pow10Int(n) == IF n = 0 THEN 1 ELSE 10 * Pow10Int(n - 1)

RECURSIVE Pow2Int(_)
Pow2Int(n) == IF n = 0 THEN 1 ELSE 2 * Pow2Int(n - 1)

\* a * b / Scale for a, b >= 0, without leaving 32 bits; `up` is what is
\* added before the final division (Scale \div 2 rounds to nearest,
\* Scale - 1 rounds up).
MulAdj(a, b, up) ==
    LET ah == a \div Limb
        al == a % Limb
        bh == b \div Limb
        bl == b % Limb
        m  == ah * bl + al * bh
    IN  ah * bh + (m \div Limb) + (((m % Limb) * Limb + al * bl + up) \div Scale)

MulS(a, b) == MulAdj(a, b, Scale \div 2)

MulUp(a, b) == MulAdj(a, b, Scale - 1)

\* floor(r * 10^k / b) for 0 <= r < b, digit by digit.
RECURSIVE LongDiv(_, _, _)
LongDiv(r, b, k) ==
    IF k = 0 THEN 0
    ELSE ((r * 10) \div b) * Pow10Int(k - 1) + LongDiv((r * 10) % b, b, k - 1)

\* Scale * Scale / d for d >= Scale.
Recip(d) ==
    IF d <= 200 * Scale
    THEN (Scale \div d) * Scale + LongDiv(Scale % d, d, 6)
    ELSE (Scale * Limb) \div (d \div Limb)

\* 10^(a/4), 10^(b/40), 10^(c/400), times Scale.
PowQuarter == <<1000000, 1778279, 3162278, 5623413>>

PowFortieth == <<1000000, 1059254, 1122018, 1188502, 1258925,
                 1333521, 1412538, 1496236, 1584893, 1678804>>

PowFourHundredth == <<1000000, 1005773, 1011579, 1017419, 1023293,
                      1029201, 1035142, 1041118, 1047129, 1053174>>

ExpDen == 400

\* Math.pow(10, n / ExpDen), times Scale, for -3 * ExpDen <= n < 3.3 * ExpDen.
MathPow10(n) ==
    LET q == n \div ExpDen
        r == n % ExpDen
        t == MulS(MulS(PowQuarter[(r \div 100) + 1],
                       PowFortieth[((r % 100) \div 10) + 1]),
                  PowFourHundredth[(r % 10) + 1])
    IN  IF q >= 0 THEN t * Pow10Int(q)
        ELSE (t + (Pow10Int(-q) \div 2)) \div Pow10Int(-q)

FracBits == 16

\* Fractional part of log2(x / Scale) for Scale <= x < 2 * Scale, by
\* repeated squaring; errors are on the high side.
RECURSIVE Log2Frac(_, _)
Log2Frac(x, i) ==
    IF i > FracBits THEN 0
    ELSE LET y == MulUp(x, x)
         IN  IF y >= 2 * Scale
             THEN ((Scale + Pow2Int(i) - 1) \div Pow2Int(i))
                      + Log2Frac((y + 1) \div 2, i + 1)
             ELSE Log2Frac(y, i + 1)

\* Math.log2(x / Scale), times Scale, for 0 < x <= Scale.
RECURSIVE MathLog2(_)
MathLog2(x) ==
    IF x < Scale THEN MathLog2(2 * x) - Scale ELSE Log2Frac(x, 1)

\* Math.floor in the place of Math.round.
MathRoundAsFloor(x) == x \div Scale

\* Math.round: the nearest integer, a tie going up.
MathRound(x) == (x + (Scale \div 2)) \div Scale

(***************************************************************************)
(* class EloRating                                                         *)
(***************************************************************************)
defaultKFactor == 25

beta == 200

\* The differences wordDifficulty - userRating whose score is tabulated.
DiffRange == (-1700)..1300

\* 1 / (1 + 10^(diff / (2 * beta))), times Scale, tabulated once per diff.
ScoreOfDiff ==
    [diff \in DiffRange |->
        Recip(Scale + MathPow10((diff * ExpDen) \div (2 * beta)))]

\* Decimal exponents of the IEEE double format, in thousandths: at or below
\* log10(2^-53) the sum 1 + 10^x rounds to 1, and above log10 of the
\* largest double Math.pow(10, x) is Infinity.
Milli == 1000

Log10HalfUlp == -15955

Log10MaxDouble == 308254

\* The exponent halved once too often: diff / beta.
expectedScoreOverBeta(userRating, wordDifficulty) ==
    LET diff == wordDifficulty - userRating
    IN  IF diff * Milli <= Log10HalfUlp * beta THEN Scale
        ELSE IF diff * Milli > Log10MaxDouble * beta THEN 0
        ELSE IF 2 * diff \in DiffRange THEN ScoreOfDiff[2 * diff]
        ELSE IF diff < 0 THEN Scale - 1
        ELSE 1

\* The difference taken the other way round: userRating - wordDifficulty.
expectedScoreOfLearnerLead(userRating, wordDifficulty) ==
    LET diff == userRating - wordDifficulty
    IN  IF diff * Milli <= Log10HalfUlp * 2 * beta THEN Scale
        ELSE IF diff * Milli > Log10MaxDouble * 2 * beta THEN 0
        ELSE IF diff \in DiffRange THEN ScoreOfDiff[diff]
        ELSE IF diff < 0 THEN Scale - 1
        ELSE 1

\* Outside the table the double is exactly 1 or exactly 0 where the
\* addition or the power saturates, and otherwise the fixed-point value
\* next to 1 or to 0.
expectedScore(userRating, wordDifficulty) ==
    LET diff == wordDifficulty - userRating
    IN  IF diff * Milli <= Log10HalfUlp * 2 * beta THEN Scale
        ELSE IF diff * Milli > Log10MaxDouble * 2 * beta THEN 0
        ELSE IF diff \in DiffRange THEN ScoreOfDiff[diff]
        ELSE IF diff < 0 THEN Scale - 1
        ELSE 1

\* EloRating.updateRating with this.kFactor = k.
EloUpdateRating(k, userRating, wordDifficulty, isCorrect) ==
    LET expected == expectedScore(userRating, wordDifficulty)
        actual   == IF isCorrect THEN Scale ELSE 0
        change   == k * (actual - expected)
    IN  MathRound(userRating * Scale + change)

\* The change computed with the operands of the subtraction exchanged.
getRatingChangeReversed(k, userRating, wordDifficulty, isCorrect) ==
    LET expected == expectedScore(userRating, wordDifficulty)
        actual   == IF isCorrect THEN Scale ELSE 0
    IN  MathRound(k * (expected - actual))

getRatingChange(k, userRating, wordDifficulty, isCorrect) ==
    LET expected == expectedScore(userRating, wordDifficulty)
        actual   == IF isCorrect THEN Scale ELSE 0
    IN  MathRound(k * (actual - expected))

\* The entropy without its leading minus sign.
InfoOfScoreNegated(p) ==
    IF p <= 0 \/ p >= Scale THEN 0
    ELSE MulS(p, MathLog2(p)) + MulS(Scale - p, MathLog2(Scale - p))

\* -(p * log2(p) + (1 - p) * log2(1 - p)), times Scale; 0 when p is at or
\* beyond 0 or 1.
InfoOfScore(p) ==
    IF p <= 0 \/ p >= Scale THEN 0
    ELSE MulS(p, -MathLog2(p)) + MulS(Scale - p, -MathLog2(Scale - p))

\* The information value tabulated once per diff.
InfoOfDiff == [diff \in DiffRange |-> InfoOfScore(ScoreOfDiff[diff])]

informationValue(userRating, wordDifficulty) ==
    LET diff == wordDifficulty - userRating
    IN  IF diff \in DiffRange THEN InfoOfDiff[diff]
        ELSE InfoOfScore(expectedScore(userRating, wordDifficulty))

BandLow == 200000

BandHigh == 900000

PoolSize == 20

TopN == 5

\* Array.prototype.includes
Includes(arr, x) == \E i \in 1..Len(arr) : arr[i] = x

\* The slice keeping one element more: slice(0, n + 1).
SliceToInclusive(arr, n) == SubSeq(arr, 1, Min(n + 1, Len(arr)))

\* Array.prototype.slice(0, n)
SliceTo(arr, n) == SubSeq(arr, 1, Min(n, Len(arr)))

\* Array.prototype.splice(idx, 1) with a 0-based idx: what is left.
SpliceOut(arr, idx) ==
    SubSeq(arr, 1, idx) \o SubSeq(arr, idx + 2, Len(arr))

\* The filter testing another field of the item than its word.
NotRecentByItem(ws, recent) ==
    SelectSeq(ws, LAMBDA w : ~Includes(recent, w.difficulty))

\* words.filter(w => !recentWords.includes(w.word))
NotRecent(ws, recent) == SelectSeq(ws, LAMBDA w : ~Includes(recent, w.word))

\* .map(w => ({...w, infoValue, expectedAccuracy}))
Annotate(ws, userRating) ==
    [i \in 1..Len(ws) |->
        [word             |-> ws[i].word,
         difficulty       |-> ws[i].difficulty,
         infoValue        |-> informationValue(userRating, ws[i].difficulty),
         expectedAccuracy |-> expectedScore(userRating, ws[i].difficulty)]]

\* The band test without its upper bound.
InBandNoUpper(c) == c.expectedAccuracy > BandLow

InBand(c) == c.expectedAccuracy > BandLow /\ c.expectedAccuracy < BandHigh

\* candidates.sort((a, b) => b.infoValue - a.infoValue): descending and
\* stable, an element going behind the equal ones already placed.
RECURSIVE InsertByInfo(_, _)
InsertByInfo(sorted, c) ==
    IF sorted = <<>> THEN <<c>>
    ELSE IF Head(sorted).infoValue >= c.infoValue
         THEN <<Head(sorted)>> \o InsertByInfo(Tail(sorted), c)
         ELSE <<c>> \o sorted

\* The comparator reversed (a.infoValue - b.infoValue): ascending.
RECURSIVE InsertByInfoAsc(_, _)
InsertByInfoAsc(sorted, c) ==
    IF sorted = <<>> THEN <<c>>
    ELSE IF Head(sorted).infoValue <= c.infoValue
         THEN <<Head(sorted)>> \o InsertByInfoAsc(Tail(sorted), c)
         ELSE <<c>> \o sorted

RECURSIVE SortByInfoAscending(_)
SortByInfoAscending(cs) ==
    IF cs = <<>> THEN <<>>
    ELSE InsertByInfoAsc(SortByInfoAscending(SubSeq(cs, 1, Len(cs) - 1)),
                         cs[Len(cs)])

RECURSIVE SortByInfo(_)
SortByInfo(cs) ==
    IF cs = <<>> THEN <<>>
    ELSE InsertByInfo(SortByInfo(SubSeq(cs, 1, Len(cs) - 1)), cs[Len(cs)])

\* Math.random() is k / RandDen for k in RandomValues: values of [0, 1).
RandDen == 100

RandomValues == {0, 20, 40, 60, 80, 99}

\* The i-th Math.random() of a call (i from 0): the draws of a call are a
\* stream that repeats with period Len(rnd).
Draw(rnd, i) == rnd[(i % Len(rnd)) + 1]

\* The loop running while i <= count.
RECURSIVE PickLoopOneMore(_, _, _, _, _)
PickLoopOneMore(topCandidates, sel, i, cnt, rnd) ==
    IF i <= cnt /\ Len(topCandidates) > 0
    THEN LET idx == (Draw(rnd, i) * Min(TopN, Len(topCandidates))) \div RandDen
         IN  PickLoopOneMore(SpliceOut(topCandidates, idx),
                             Append(sel, topCandidates[idx + 1]),
                             i + 1, cnt, rnd)
    ELSE sel

\* The for loop of selectOptimalWord.
RECURSIVE PickLoop(_, _, _, _, _)
PickLoop(topCandidates, sel, i, cnt, rnd) ==
    IF i < cnt /\ Len(topCandidates) > 0
    THEN LET idx == (Draw(rnd, i) * Min(TopN, Len(topCandidates))) \div RandDen
         IN  PickLoop(SpliceOut(topCandidates, idx),
                      Append(sel, topCandidates[idx + 1]), i + 1, cnt, rnd)
    ELSE sel

Candidates(ws, userRating, recent) ==
    SortByInfo(SelectSeq(Annotate(NotRecent(ws, recent), userRating), InBand))

\* The fallback slicing the (empty) candidates instead of the catalog.
selectOptimalWordNoFallback(ws, userRating, recent, cnt, rnd) ==
    LET candidates == Candidates(ws, userRating, recent)
    IN  IF Len(candidates) = 0
        THEN SliceTo(candidates, cnt)
        ELSE PickLoop(SliceTo(candidates, Min(PoolSize, Len(candidates))),
                      <<>>, 0, cnt, rnd)

selectOptimalWord(ws, userRating, recent, cnt, rnd) ==
    LET candidates == Candidates(ws, userRating, recent)
    IN  IF Len(candidates) = 0
        THEN SliceTo(NotRecent(ws, recent), cnt)
        ELSE PickLoop(SliceTo(candidates, Min(PoolSize, Len(candidates))),
                      <<>>, 0, cnt, rnd)

(***************************************************************************)
(* class DynamicKFactorElo extends EloRating                               *)
(***************************************************************************)
kBase == 20

kMin == 10

kMax == 40

window == 5

RECURSIVE Trend(_, _)
\* The loop of getDynamicK from index i (1-based here) on.
Trend(recent, i) ==
    IF i > Len(recent) THEN 0
    ELSE (recent[i] - recent[i - 1]) + Trend(recent, i + 1)

\* Array.prototype.slice(-n)
SliceLast(arr, n) ==
    IF Len(arr) <= n THEN arr ELSE SubSeq(arr, Len(arr) - n + 1, Len(arr))

\* The trend compared with >= in the place of >.
getDynamicKAtLeast(history) ==
    IF Len(history) < window THEN kBase
    ELSE LET recent == SliceLast(history, window)
             trend  == Trend(recent, 2)
         IN  IF Abs(trend) >= window * 5 THEN kMax ELSE kMin

getDynamicK(history) ==
    IF Len(history) < window THEN kBase
    ELSE LET recent == SliceLast(history, window)
             trend  == Trend(recent, 2)
         IN  IF Abs(trend) > window * 5 THEN kMax ELSE kMin

\* pop() in the place of shift(): the newest entry is the one dropped.
PushHistoryPop(history, userRating) ==
    LET pushed == Append(history, userRating)
    IN  IF Len(pushed) > window * 2 THEN SubSeq(pushed, 1, Len(pushed) - 1)
        ELSE pushed

\* The push and the shift that open DynamicKFactorElo.updateRating.
PushHistory(history, userRating) ==
    LET pushed == Append(history, userRating)
    IN  IF Len(pushed) > window * 2 THEN Tail(pushed) ELSE pushed

(***************************************************************************)
(* State (state.js)                                                        *)
(***************************************************************************)
DefaultRating == 1200

HistoryCap == 100

\* State.updateRating: the rating and the rating history it leaves.
StateUpdateRating(history, newRating) ==
    LET r      == MathRound(newRating * Scale)
        pushed == Append(history, r)
    IN  [rating  |-> r,
         history |-> IF Len(pushed) > HistoryCap THEN Tail(pushed)
                     ELSE pushed]

(***************************************************************************)
(* data-loader.js.  A JSON value of the payload is a record: isNull for    *)
(* the value null, and for an object its fields, an absent or empty string *)
(* field being "" (both are falsy) and typeofDifficulty being what typeof  *)
(* word.difficulty gives.                                                  *)
(***************************************************************************)
Entry(w, def, p, diff) ==
    [isNull |-> FALSE, word |-> w, definition |-> def, pos |-> p,
     difficulty |-> diff, typeofDifficulty |-> "number"]

FALLBACK_DATA ==
    <<Entry("ephemeral", "lasting for a very short time", "a", 1200),
      Entry("serendipity", "occurrence of events by chance in a happy way",
            "n", 1200),
      Entry("ubiquitous", "present, appearing, or found everywhere", "a",
            1300)>>

\* The filter leaving the part of speech unchecked.
IsValidEntryAnyPos(e) ==
    e.word # "" /\ e.definition # "" /\ e.typeofDifficulty = "number"

\* word.word && word.definition && word.pos
\*     && typeof word.difficulty === 'number'
IsValidEntry(e) ==
    /\ e.word # ""
    /\ e.definition # ""
    /\ e.pos # ""
    /\ e.typeofDifficulty = "number"

\* The try block of loadWords: what it returns, or that it threw.  Reading
\* word.word of a null element is a TypeError.
TryLoadWords(o) ==
    IF o.fetch = "rejected" \/ ~o.ok \/ o.json = "invalid"
    THEN [threw |-> TRUE, value |-> <<>>]
    ELSE IF o.json # "array" \/ Len(o.body) = 0
    THEN [threw |-> TRUE, value |-> <<>>]
    ELSE IF \E i \in 1..Len(o.body) : o.body[i].isNull
    THEN [threw |-> TRUE, value |-> <<>>]
    ELSE LET validWords == SelectSeq(o.body, IsValidEntry)
         IN  IF Len(validWords) = 0 THEN [threw |-> TRUE, value |-> <<>>]
             ELSE [threw |-> FALSE, value |-> validWords]

\* loadWords: how its promise settles, the catch block returning the
\* fallback data.
loadWords(o) ==
    LET r == TryLoadWords(o)
    IN  IF r.threw THEN [status |-> "fulfilled", value |-> FALLBACK_DATA]
        ELSE [status |-> "fulfilled", value |-> r.value]

(***************************************************************************)
(* app.js: the session queue and the answer options.                       *)
(***************************************************************************)
QueueSize == 10

ClosestCount == 50

OptionDistractors == 3

\* arr.sort(() => 0.5 - Math.random()): the comparator answers at random,
\* so the array comes out in some order.  The orders produced here are the
\* rotations by sh.rot, as they are or reversed.
Rotate(arr, k) ==
    [i \in 1..Len(arr) |-> arr[((i - 1 + k) % Len(arr)) + 1]]

Reverse(arr) == [i \in 1..Len(arr) |-> arr[Len(arr) + 1 - i]]

RandomOrder(arr, sh) ==
    IF sh.rev THEN Reverse(Rotate(arr, sh.rot)) ELSE Rotate(arr, sh.rot)

\* sort((a, b) => Math.abs(a.difficulty - userRating)
\*                    - Math.abs(b.difficulty - userRating)): ascending and
\* stable, so an item goes behind the nearer ones and behind the equally
\* near ones that stood before it.
SortByDistance(ws, rating) ==
    LET dist == [i \in 1..Len(ws) |-> Abs(ws[i].difficulty - rating)]
        rank == [i \in 1..Len(ws) |->
                    Cardinality({j \in 1..Len(ws) :
                        \/ dist[j] < dist[i]
                        \/ dist[j] = dist[i] /\ j < i})]
    IN  [k \in 1..Len(ws) |-> ws[CHOOSE i \in 1..Len(ws) : rank[i] = k - 1]]

\* The queue cut from the catalog as loaded, not from the closest words.
sessionQueueUnsorted(catalog, rating, sh) ==
    SubSeq(RandomOrder(catalog, sh), 1, Min(QueueSize, Len(catalog)))

\* The queue startQuizSession builds.
sessionQueue(catalog, rating, sh) ==
    LET sorted     == SortByDistance(catalog, rating)
        candidates == SubSeq(sorted, 1, Min(ClosestCount, Len(sorted)))
    IN  SubSeq(RandomOrder(candidates, sh), 1, Min(QueueSize, Len(candidates)))

\* The widening made when at most 3 same-pos items exist (<= for <).
generateOptionsWidenAtThree(catalog, correctWord, sh1, sh2) ==
    LET samePos == SelectSeq(catalog,
                       LAMBDA w : w.word # correctWord.word
                                     /\ w.pos = correctWord.pos)
        distractors == IF Len(samePos) <= OptionDistractors
                       THEN SelectSeq(catalog,
                                LAMBDA w : w.word # correctWord.word)
                       ELSE samePos
        shuffled == RandomOrder(distractors, sh1)
        selectedD == SubSeq(shuffled, 1, Min(OptionDistractors, Len(shuffled)))
    IN  RandomOrder(Append(selectedD, correctWord), sh2)

\* generateOptions(correctWord) on the catalog allWords.
generateOptions(catalog, correctWord, sh1, sh2) ==
    LET samePos == SelectSeq(catalog,
                       LAMBDA w : w.word # correctWord.word
                                     /\ w.pos = correctWord.pos)
        distractors == IF Len(samePos) < OptionDistractors
                       THEN SelectSeq(catalog,
                                LAMBDA w : w.word # correctWord.word)
                       ELSE samePos
        shuffled == RandomOrder(distractors, sh1)
        selectedD == SubSeq(shuffled, 1, Min(OptionDistractors, Len(shuffled)))
    IN  RandomOrder(Append(selectedD, correctWord), sh2)

(***************************************************************************)
(* Variables                                                               *)
(***************************************************************************)
VARIABLES
    words,          \* selectOptimalWord: the catalog passed
    userRating,     \* selectOptimalWord: the rating passed
    recentWords,    \* selectOptimalWord: the recent-word list passed
    count,          \* selectOptimalWord: the count passed
    selected,       \* selectOptimalWord: the array returned
    selPc,          \* "ready" before the call, "done" after it
    eloArgs,        \* EloRating method call: this.kFactor and the arguments
    eloResult,      \* EloRating method call: the value returned
    eloPc,          \* "ready" before the call; after it "done" (updateRating)
                    \* or the name of the other method called
    ratingHistory,  \* DynamicKFactorElo: this.ratingHistory
    kFactor,        \* DynamicKFactorElo: this.kFactor
    dynCalls,       \* the userRating of every updateRating call so far
    dynReturn,      \* DynamicKFactorElo.updateRating: the value returned
    stateRating,    \* State.data.user.rating
    historyRating,  \* State.data.historyRating
    xp,             \* State.data.user.xp
    targetWord,     \* the difficulty of the word of the question on screen
    optionsDisabled,\* the option buttons carry the disabled attribute
    lastAnswer,     \* what the last handleAnswer saw and stored
    engine,         \* the object a constructor call of elo.js left
    engineScore,    \* engine.expectedScore: the value returned
    fetchOutcome,   \* what fetch('data/words.json') and response.json() give
    allWords,       \* app.js: the catalog, allWords = await loadWords()
    loadStatus,     \* the promise of loadWords: "pending", "fulfilled", ...
    quizSession,    \* app.js: quizSession (its queue, index and start rating)
    options,        \* the options of the question on screen, in button order
    quizPc,         \* "home", "rendering" (renderScreen pending), "question"
    engMethod,      \* the method called last on the controller object
    engResult,      \* the value that call returned
    data,           \* state.js: State.data
    defaultState,   \* state.js: the object DEFAULT_STATE, as it is now
    shared,         \* the keys k with State.data[k] === DEFAULT_STATE[k]
    storage,        \* localStorage: <<>> or the one item of STORAGE_KEY
    today,          \* getToday(): the UTC calendar day, as a day number
    savedDay,       \* the day on which State.save() ran last
    stOp,           \* the State operation that ran last
    dataBefore,     \* State.data as that operation found it
    lessonLog,      \* the days of the completeLesson calls since the reset
    stOps,          \* the number of State operations run
    playSession,    \* app.js: quizSession while a session is played
    deferred,       \* the build's renderScreen defers by 200 ms (ui.js)
    timers,         \* the pending setTimeout callbacks of renderScreen
    screen,         \* the template whose copy the page shows
    shownIndex,     \* the queue position of the word on screen, 0 for none
    footerShown,    \* the feedback bar with the Next button is visible
    onkeydown,      \* document.onkeydown: "null", "digits" or "enter"
    presented,      \* the queue positions rendered so far, in order
    processed,      \* how often each queue position went through the
                    \* rating, XP and attempt updates of handleAnswer
    answersOnScreen,\* how often the question on screen went through them
    ignoredAnswer,  \* a click or digit key came for it and was discarded
    finishCount     \* the number of finishQuizSession() calls

selVars == <<words, userRating, recentWords, count, selected, selPc>>

eloVars == <<eloArgs, eloResult, eloPc>>

dynVars == <<ratingHistory, kFactor, dynCalls, dynReturn>>

appVars == <<stateRating, historyRating, xp, targetWord, optionsDisabled,
             lastAnswer>>

ctorVars == <<engine, engineScore>>

\* What the engine's method calls and the answer handler leave alone.
loadVars == <<fetchOutcome, allWords, loadStatus>>

quizVars == <<quizSession, options, quizPc>>

engVars == <<engMethod, engResult>>

stVars == <<data, defaultState, shared, storage, today, savedDay, stOp,
            dataBefore, lessonLog, stOps>>

playVars == <<playSession, deferred, timers, screen, shownIndex, footerShown,
              onkeydown, presented, processed, answersOnScreen, ignoredAnswer,
              finishCount>>

lateVars == <<engVars, stVars, playVars>>

otherVars == <<ctorVars, loadVars, quizVars, lateVars>>

vars == <<selVars, eloVars, dynVars, appVars, otherVars>>

(***************************************************************************)
(* Inputs of selectOptimalWord.  A catalog is a run of consecutive entries *)
(* of MasterDifficulty; the word of an entry is its position there.        *)
(***************************************************************************)
MasterDifficulty ==
    <<1200, 2000, 1100, 1300,  400, 1250, 1150, 1900, 1350, 1000,
      1400, 1225, 1210, 1190, 1180, 1260, 1270, 1120, 1330, 1050,
      1420,  950, 1175, 1310, 1205, 1195>>

MasterCatalog ==
    [i \in 1..Len(MasterDifficulty) |->
        [word |-> i, difficulty |-> MasterDifficulty[i]]]

MaxWords == 6

MaxRecent == 2

MaxCount == 2

MaxDraws == 2

\* The short runs, and the beginnings long enough to fill the pool.
Catalogs ==
    { SubSeq(MasterCatalog, i, Min(i + n - 1, Len(MasterCatalog))) :
        i \in 1..Len(MasterCatalog), n \in 0..MaxWords }
    \cup { SubSeq(MasterCatalog, 1, j) :
               j \in (Len(MasterCatalog) - 1)..Len(MasterCatalog) }

RecentPool == {2, 3}

RecentLists ==
    { r \in UNION { [1..n -> RecentPool] : n \in 0..MaxRecent } :
        \A i, j \in 1..Len(r) : i # j => r[i] # r[j] }

SelRatings == {1200, 2000}

Counts == (1..MaxCount) \cup {PoolSize + 1}

RandomStreams == [1..MaxDraws -> RandomValues]

(***************************************************************************)
(* state.js: the State object (STORAGE_KEY vocab_trainer_v2).  Dates are   *)
(* day numbers, NullDate the null of a date never set.  wordMastery maps   *)
(* every word to its counters, attempts = 0 standing for a missing key.    *)
(***************************************************************************)
NullDate == 0

StateWords == {"ephemeral"}

AchievementIds == {"first_lesson"}

NoMastery == [attempts |-> 0, correct |-> 0]

DEFAULT_STATE ==
    [user |-> [rating |-> DefaultRating, xp |-> 0, level |-> 1, streak |-> 0,
               maxStreak |-> 0, lastActiveDate |-> NullDate,
               totalSessions |-> 0, totalCorrect |-> 0, totalAttempts |-> 0],
     daily |-> [xpToday |-> 0, lessonsToday |-> 0,
                lastLessonDate |-> NullDate],
     historyRating |-> <<>>,
     historySessions |-> <<>>,
     wordMastery |-> [w \in StateWords |-> NoMastery],
     achievements |-> [unlocked |-> <<>>]]

\* The keys of State.data that hold an object or an array.
TopKeys == DOMAIN DEFAULT_STATE

LEVEL_THRESHOLDS ==
    <<0, 100, 250, 500, 1000, 1750, 2750, 4000, 5500, 7500, 10000, 13000,
      17000, 22000, 28000, 35000, 43000, 52000, 62000, 75000>>

computeLevel(x) ==
    LET reached == {i \in 1..Len(LEVEL_THRESHOLDS) : x >= LEVEL_THRESHOLDS[i]}
    IN  IF reached = {} THEN 1 ELSE Cardinality(reached)

SessionCap == 50

\* JSON.stringify(this.data): the own properties, by value.
Stringify(d) == [k \in DOMAIN d |-> d[k]]

\* JSON.parse(saved)
Parse(item) == item

\* deepMerge on two objects whose properties are primitives or arrays.
MergeFlat(target, source) ==
    [f \in (DOMAIN target) \cup (DOMAIN source) |->
        IF f \in DOMAIN source THEN source[f] ELSE target[f]]

\* deepMerge(DEFAULT_STATE, parsed): objects merged property by property
\* into new objects, arrays and primitives taken from parsed.
deepMerge(target, source) ==
    [k \in (DOMAIN target) \cup (DOMAIN source) |->
        IF k \notin DOMAIN source THEN target[k]
        ELSE IF k \in {"historyRating", "historySessions"} THEN source[k]
        ELSE IF k = "wordMastery"
             THEN [w \in StateWords |->
                      MergeFlat(target[k][w], source[k][w])]
        ELSE MergeFlat(target[k], source[k])]

\* State._updateStreak()
updateStreak(d, day) ==
    IF d.user.lastActiveDate = NullDate THEN d
    ELSE IF day - d.user.lastActiveDate > 1
         THEN [d EXCEPT !.user.streak = 0]
         ELSE d

\* State._checkDailyReset()
checkDailyReset(d, day) ==
    IF d.daily.lastLessonDate # day
    THEN [d EXCEPT !.daily.xpToday = 0, !.daily.lessonsToday = 0]
    ELSE d

\* State.load() from the object the merge or the spread gave.
loadFrom(d, day) ==
    LET r == checkDailyReset(updateStreak(d, day), day)
    IN  [r EXCEPT !.user.level = computeLevel(r.user.xp)]

\* State.updateUser(updates)
updateUser(d, updates) ==
    LET u == MergeFlat(d.user, updates)
    IN  [d EXCEPT !.user = IF "xp" \in DOMAIN updates
                           THEN [u EXCEPT !.level = computeLevel(u.xp)]
                           ELSE u]

\* State.addXP(amount)
addXP(d, amount) ==
    [d EXCEPT !.user.xp = @ + amount,
              !.user.level = computeLevel(d.user.xp + amount),
              !.daily.xpToday = @ + amount]

\* The streak counted up on every lesson.
streakAfterLessonCounting(u, day) == u.streak + 1

\* The streak part of State.completeLesson.
streakAfterLesson(u, day) ==
    IF u.lastActiveDate = day THEN u.streak
    ELSE IF u.lastActiveDate = NullDate THEN 1
    ELSE IF day - u.lastActiveDate = 1 THEN u.streak + 1
    ELSE IF day - u.lastActiveDate > 1 THEN 1
    ELSE u.streak

\* historySessions.unshift(...) and the cap of 50.
UnshiftSession(sessions, entry) ==
    LET l == <<entry>> \o sessions
    IN  IF Len(l) > SessionCap THEN SubSeq(l, 1, Len(l) - 1) ELSE l

\* State.completeLesson(sessionStats)
completeLesson(d, day, sessionStats) ==
    LET streak == streakAfterLesson(d.user, day)
        maxStreak ==
            IF d.user.lastActiveDate # day /\ streak > d.user.maxStreak
            THEN streak ELSE d.user.maxStreak
    IN  [d EXCEPT !.user.streak = streak,
                  !.user.maxStreak = maxStreak,
                  !.user.lastActiveDate = day,
                  !.daily.lastLessonDate = day,
                  !.daily.lessonsToday = @ + 1,
                  !.user.totalSessions = @ + 1,
                  !.historySessions =
                      UnshiftSession(@, [correct |-> sessionStats.correct,
                                         date |-> day])]

\* State.updateRating(newRating)
updateRating(d, newRating) ==
    LET r == StateUpdateRating(d.historyRating, newRating)
    IN  [d EXCEPT !.user.rating = r.rating, !.historyRating = r.history]

\* State.trackWordAttempt(word, correct)
trackWordAttempt(d, word, correct) ==
    [d EXCEPT !.wordMastery[word].attempts = @ + 1,
              !.wordMastery[word].correct = IF correct THEN @ + 1 ELSE @,
              !.user.totalAttempts = @ + 1,
              !.user.totalCorrect = IF correct THEN @ + 1 ELSE @]

\* State.unlockAchievement(id): the state it leaves
unlockAchievement(d, id) ==
    IF Includes(d.achievements.unlocked, id) THEN d
    ELSE [d EXCEPT !.achievements.unlocked = Append(@, id)]

(***************************************************************************)
(* The state of each part before it is used.                               *)
(***************************************************************************)
NoAnswer ==
    [answered |-> FALSE, oldRating |-> 0, difficulty |-> 0,
     isCorrect |-> FALSE, newRating |-> 0]

SelIdle ==
    /\ words = <<>>
    /\ userRating = DefaultRating
    /\ recentWords = <<>>
    /\ count = 1
    /\ selected = <<>>
    /\ selPc = "idle"

EloIdle ==
    /\ eloArgs = [kFactor |-> defaultKFactor, userRating |-> DefaultRating,
                  wordDifficulty |-> DefaultRating, isCorrect |-> FALSE]
    /\ eloResult = 0
    /\ eloPc = "idle"

\* new DynamicKFactorElo()
DynConstructed ==
    /\ ratingHistory = <<>>
    /\ kFactor = kBase
    /\ dynCalls = <<>>
    /\ dynReturn = 0

\* State.load() on an empty storage; no question on screen.
AppLoaded ==
    /\ stateRating = DefaultRating
    /\ historyRating = <<>>
    /\ xp = 0
    /\ targetWord = 0
    /\ optionsDisabled = FALSE
    /\ lastAnswer = NoAnswer

\* No constructor call made yet.
NotConstructed ==
    /\ engine = [class |-> "none"]
    /\ engineScore = [isNaN |-> FALSE, value |-> 0]

\* let allWords = [] and no loadWords() call made yet.
NotLoaded ==
    /\ fetchOutcome = [fetch |-> "none", ok |-> FALSE, json |-> "none",
                       body |-> <<>>]
    /\ allWords = <<>>
    /\ loadStatus = "idle"

\* No quiz session started.
NoSession ==
    /\ quizSession = [started |-> FALSE, queue |-> <<>>, currentIndex |-> 0,
                      startRating |-> 0]
    /\ options = <<>>
    /\ quizPc = "home"

\* new DynamicKFactorElo() and no method called on it yet.
NoCall ==
    /\ engMethod = "constructor"
    /\ engResult = 0

\* The page opened on day 1 with an empty storage, State.load() run.
FirstLoad ==
    /\ data = DEFAULT_STATE
    /\ defaultState = DEFAULT_STATE
    /\ shared = TopKeys
    /\ storage = <<Stringify(DEFAULT_STATE)>>
    /\ today = 1
    /\ savedDay = 1
    /\ stOp = "load"
    /\ dataBefore = DEFAULT_STATE
    /\ lessonLog = <<>>
    /\ stOps = 0

\* let quizSession = {queue: [], currentIndex: 0, ...} and the home screen.
NotPlaying ==
    /\ playSession = [queue |-> <<>>, currentIndex |-> 0, correctCount |-> 0,
                      xpEarned |-> 0, currentStreak |-> 0, maxStreak |-> 0]
    /\ deferred = FALSE
    /\ timers = <<>>
    /\ screen = "home"
    /\ shownIndex = 0
    /\ footerShown = FALSE
    /\ onkeydown = "null"
    /\ presented = <<>>
    /\ processed = <<>>
    /\ answersOnScreen = 0
    /\ ignoredAnswer = FALSE
    /\ finishCount = 0

LateIdle == NoCall /\ FirstLoad /\ NotPlaying

OtherIdle == NotConstructed /\ NotLoaded /\ NoSession /\ LateIdle

(***************************************************************************)
(* selectOptimalWord, one call on arbitrary arguments.                     *)
(***************************************************************************)
InitSelect ==
    /\ words \in Catalogs
    /\ userRating \in SelRatings
    /\ recentWords \in RecentLists
    /\ count \in Counts
    /\ selected = <<>>
    /\ selPc = "ready"
    /\ EloIdle /\ DynConstructed /\ AppLoaded /\ OtherIdle

\* One call elo.selectOptimalWord(words, userRating, recentWords, count).
SelectOptimalWord ==
    /\ selPc = "ready"
    /\ \E rnd \in RandomStreams :
          selected' = selectOptimalWord(words, userRating, recentWords,
                                        count, rnd)
    /\ selPc' = "done"
    /\ UNCHANGED <<words, userRating, recentWords, count>>
    /\ UNCHANGED <<eloVars, dynVars, appVars, otherVars>>

NextSelect == SelectOptimalWord

SpecSelect == InitSelect /\ [][NextSelect]_vars

(***************************************************************************)
(* EloRating, one method call on arbitrary arguments.                      *)
(***************************************************************************)
EloRatings == 1150..1250

\* Difficulties near the ratings, far from them, and far enough for the
\* double arithmetic of expectedScore to saturate.
EloDifficulties ==
    {-5300, -5200, 500, 1100, 1200, 1201, 1300, 1900, 124500, 124600}

KFactors == {defaultKFactor, kBase, kMin, kMax}

InitElo ==
    /\ eloArgs \in [kFactor : KFactors, userRating : EloRatings,
                    wordDifficulty : EloDifficulties, isCorrect : BOOLEAN]
    /\ eloResult = 0
    /\ eloPc = "ready"
    /\ SelIdle /\ DynConstructed /\ AppLoaded /\ OtherIdle

UpdateRatingCall ==
    /\ eloPc = "ready"
    /\ eloResult' = EloUpdateRating(eloArgs.kFactor, eloArgs.userRating,
                                    eloArgs.wordDifficulty, eloArgs.isCorrect)
    /\ eloPc' = "done"
    /\ UNCHANGED eloArgs
    /\ UNCHANGED <<selVars, dynVars, appVars, otherVars>>

\* One call elo.getRatingChange(userRating, wordDifficulty, isCorrect).
GetRatingChangeCall ==
    /\ eloPc = "ready"
    /\ eloResult' = getRatingChange(eloArgs.kFactor, eloArgs.userRating,
                                    eloArgs.wordDifficulty, eloArgs.isCorrect)
    /\ eloPc' = "change"
    /\ UNCHANGED eloArgs
    /\ UNCHANGED <<selVars, dynVars, appVars, otherVars>>

\* One call elo.expectedScore(userRating, wordDifficulty).
ExpectedScoreCall ==
    /\ eloPc = "ready"
    /\ eloResult' = expectedScore(eloArgs.userRating, eloArgs.wordDifficulty)
    /\ eloPc' = "score"
    /\ UNCHANGED eloArgs
    /\ UNCHANGED <<selVars, dynVars, appVars, otherVars>>

\* One call elo.informationValue(userRating, wordDifficulty).
InformationValueCall ==
    /\ eloPc = "ready"
    /\ eloResult' = informationValue(eloArgs.userRating,
                                     eloArgs.wordDifficulty)
    /\ eloPc' = "info"
    /\ UNCHANGED eloArgs
    /\ UNCHANGED <<selVars, dynVars, appVars, otherVars>>

NextElo ==
    \/ UpdateRatingCall
    \/ GetRatingChangeCall
    \/ ExpectedScoreCall
    \/ InformationValueCall

SpecElo == InitElo /\ [][NextElo]_vars

(***************************************************************************)
(* DynamicKFactorElo: a controller and the calls made on it.               *)
(***************************************************************************)
MaxCalls == 11

DynRatings == {1200, 1225, 1226}

DynDifficulties == {1200}

InitDyn ==
    DynConstructed /\ SelIdle /\ EloIdle /\ AppLoaded /\ OtherIdle

\* K taken from the history as it was before the push.
DynUpdateRatingKFirst(r, d, c) ==
    /\ Len(dynCalls) < MaxCalls
    /\ LET k       == getDynamicK(ratingHistory)
           history == PushHistory(ratingHistory, r)
       IN  /\ ratingHistory' = history
           /\ kFactor' = k
           /\ dynReturn' = EloUpdateRating(k, r, d, c)
    /\ dynCalls' = Append(dynCalls, r)
    /\ UNCHANGED <<selVars, eloVars, appVars, otherVars>>

\* DynamicKFactorElo.updateRating(r, d, c)
DynUpdateRating(r, d, c) ==
    /\ Len(dynCalls) < MaxCalls
    /\ LET history == PushHistory(ratingHistory, r)
           k       == getDynamicK(history)
       IN  /\ ratingHistory' = history
           /\ kFactor' = k
           /\ dynReturn' = EloUpdateRating(k, r, d, c)
    /\ dynCalls' = Append(dynCalls, r)
    /\ UNCHANGED <<selVars, eloVars, appVars, otherVars>>

NextDyn ==
    \E r \in DynRatings, d \in DynDifficulties, c \in BOOLEAN :
        DynUpdateRating(r, d, c)

SpecDyn == InitDyn /\ [][NextDyn]_vars

(***************************************************************************)
(* The constructors of elo.js called with arbitrary configurations, and    *)
(* expectedScore called on the object they leave.                          *)
(***************************************************************************)
CtorKFactors == {-25, 0, 10, defaultKFactor}

CtorBetas == {-200, 0, 100, beta}

CtorRatings == {1100, 1200, 1300}

\* 1 / (1 + Math.pow(10, diff / (2 * b))) for this.beta = b: a division by
\* zero gives an infinite exponent, and 0 / 0 gives NaN.
ScoreWithBeta(b, diff) ==
    IF b = 0
    THEN [isNaN |-> diff = 0,
          value |-> IF diff < 0 THEN Scale ELSE 0]
    ELSE [isNaN |-> FALSE,
          value |-> Recip(Scale + MathPow10((diff * ExpDen) \div (2 * b)))]

InitCtor ==
    /\ NotConstructed /\ NotLoaded /\ NoSession /\ LateIdle
    /\ SelIdle /\ EloIdle /\ DynConstructed /\ AppLoaded

\* new EloRating(k, b)
NewEloRating(k, b) ==
    /\ engine.class = "none"
    /\ engine' = [class |-> "EloRating", kFactor |-> k, beta |-> b]
    /\ UNCHANGED engineScore
    /\ UNCHANGED <<selVars, eloVars, dynVars, appVars, loadVars, quizVars,
                   lateVars>>

\* new DynamicKFactorElo(kb, kMin, kMax, window, b)
NewDynamicKFactorElo(kb, b) ==
    /\ engine.class = "none"
    /\ engine' = [class |-> "DynamicKFactorElo", kFactor |-> kb, beta |-> b,
                  kBase |-> kb, kMin |-> kMin, kMax |-> kMax,
                  window |-> window, ratingHistory |-> <<>>]
    /\ UNCHANGED engineScore
    /\ UNCHANGED <<selVars, eloVars, dynVars, appVars, loadVars, quizVars,
                   lateVars>>

\* engine.expectedScore(r, d) on the object constructed.
EngineExpectedScore(r, d) ==
    /\ engine.class # "none"
    /\ engineScore' = ScoreWithBeta(engine.beta, d - r)
    /\ UNCHANGED engine
    /\ UNCHANGED <<selVars, eloVars, dynVars, appVars, loadVars, quizVars,
                   lateVars>>

NextCtor ==
    \/ \E k \in CtorKFactors, b \in CtorBetas : NewEloRating(k, b)
    \/ \E kb \in CtorKFactors, b \in CtorBetas : NewDynamicKFactorElo(kb, b)
    \/ \E r, d \in CtorRatings : EngineExpectedScore(r, d)

SpecCtor == InitCtor /\ [][NextCtor]_vars

(***************************************************************************)
(* loadWords, one call on an arbitrary outcome of the fetch.               *)
(***************************************************************************)
MaxEntries == 3

Lucid == Entry("lucid", "easy to understand", "a", 1100)

Zeal == Entry("zeal", "great energy in pursuit of a cause", "n", 1250)

NullEntry ==
    [isNull |-> TRUE, word |-> "", definition |-> "", pos |-> "",
     difficulty |-> 0, typeofDifficulty |-> "undefined"]

\* Two valid entries and the ways an element can be malformed.
PayloadEntries ==
    { Lucid, Zeal,
      [Lucid EXCEPT !.word = ""],
      [Zeal EXCEPT !.definition = ""],
      [Lucid EXCEPT !.pos = ""],
      [Zeal EXCEPT !.typeofDifficulty = "string"],
      NullEntry }

Payloads == UNION { [1..n -> PayloadEntries] : n \in 0..MaxEntries }

FetchOutcomes ==
    { [fetch |-> "rejected", ok |-> FALSE, json |-> "none", body |-> <<>>],
      [fetch |-> "resolved", ok |-> FALSE, json |-> "array",
       body |-> <<Lucid>>],
      [fetch |-> "resolved", ok |-> TRUE, json |-> "invalid", body |-> <<>>],
      [fetch |-> "resolved", ok |-> TRUE, json |-> "object", body |-> <<>>] }
    \cup { [fetch |-> "resolved", ok |-> TRUE, json |-> "array", body |-> b] :
               b \in Payloads }

InitLoad ==
    /\ fetchOutcome \in FetchOutcomes
    /\ allWords = <<>>
    /\ loadStatus = "pending"
    /\ NotConstructed /\ NoSession /\ LateIdle
    /\ SelIdle /\ EloIdle /\ DynConstructed /\ AppLoaded

\* allWords = await loadWords()
LoadWords ==
    /\ loadStatus = "pending"
    /\ LET settled == loadWords(fetchOutcome)
       IN  /\ loadStatus' = settled.status
           /\ allWords' = IF settled.status = "fulfilled" THEN settled.value
                          ELSE allWords
    /\ UNCHANGED fetchOutcome
    /\ UNCHANGED <<selVars, eloVars, dynVars, appVars, ctorVars, quizVars,
                   lateVars>>

NextLoad == LoadWords

SpecLoad == InitLoad /\ [][NextLoad]_vars

(***************************************************************************)
(* The quiz session: the catalog is loaded, a session is started and its   *)
(* questions are rendered one after the other.                             *)
(***************************************************************************)
MasterLen == 52

\* A catalog of valid entries: mostly nouns, every fifth word a verb, and
\* difficulties spread over 900..1499.
MasterWords ==
    [i \in 1..MasterLen |->
        Entry("w" \o ToString(i), "meaning of w" \o ToString(i),
              IF i % 5 = 0 THEN "v" ELSE "n",
              900 + ((i * 37) % 600))]

MaxCatalog == 5

MaxStart == 6

MaxRot == 1

\* The fetch failing, and payloads that are runs of MasterWords: short
\* ones, and beginnings longer than the 50 closest words.
QuizFetchOutcomes ==
    { [fetch |-> "rejected", ok |-> FALSE, json |-> "none", body |-> <<>>] }
    \cup { [fetch |-> "resolved", ok |-> TRUE, json |-> "array",
            body |-> SubSeq(MasterWords, i, i + n - 1)] :
               i \in 1..MaxStart, n \in 1..MaxCatalog }
    \cup { [fetch |-> "resolved", ok |-> TRUE, json |-> "array",
            body |-> SubSeq(MasterWords, 1, n)] :
               n \in (MasterLen - 1)..MasterLen }

QuizRatings == {1000, DefaultRating}

RandomOrders == [rot : 0..MaxRot, rev : BOOLEAN]

InitQuiz ==
    /\ fetchOutcome \in QuizFetchOutcomes
    /\ allWords = <<>>
    /\ loadStatus = "pending"
    /\ stateRating \in QuizRatings
    /\ historyRating = <<>>
    /\ xp = 0
    /\ targetWord = 0
    /\ optionsDisabled = FALSE
    /\ lastAnswer = NoAnswer
    /\ NoSession /\ NotConstructed /\ LateIdle
    /\ SelIdle /\ EloIdle /\ DynConstructed

\* startQuizSession, up to its call of renderScreen.
StartQuizSession ==
    /\ loadStatus = "fulfilled"
    /\ quizPc = "home"
    /\ historyRating' = IF Len(historyRating) = 0 THEN <<stateRating>>
                        ELSE historyRating
    /\ \E sh \in RandomOrders :
          quizSession' = [started     |-> TRUE,
                          queue       |-> sessionQueue(allWords, stateRating,
                                                       sh),
                          currentIndex |-> 0,
                          startRating |-> stateRating]
    /\ quizPc' = "rendering"
    /\ UNCHANGED <<options, stateRating, xp, targetWord, optionsDisabled,
                   lastAnswer>>
    /\ UNCHANGED <<selVars, eloVars, dynVars, ctorVars, loadVars, lateVars>>

\* The callback of renderQuizScreen: the current word and its options are
\* put on screen.
RenderQuizScreen ==
    /\ quizPc = "rendering"
    /\ LET word == quizSession.queue[quizSession.currentIndex + 1]
       IN  /\ \E sh1, sh2 \in RandomOrders :
                 options' = generateOptions(allWords, word, sh1, sh2)
           /\ targetWord' = word.difficulty
    /\ optionsDisabled' = FALSE
    /\ quizPc' = "question"
    /\ UNCHANGED <<quizSession, stateRating, historyRating, xp, lastAnswer>>
    /\ UNCHANGED <<selVars, eloVars, dynVars, ctorVars, loadVars, lateVars>>

\* nextQuestion while words are left in the queue.
NextQuestion ==
    /\ quizPc = "question"
    /\ quizSession.currentIndex + 1 < Len(quizSession.queue)
    /\ quizSession' = [quizSession EXCEPT !.currentIndex = @ + 1]
    /\ quizPc' = "rendering"
    /\ UNCHANGED options
    /\ UNCHANGED <<selVars, eloVars, dynVars, appVars, ctorVars, loadVars,
                   lateVars>>

NextQuiz ==
    \/ LoadWords
    \/ StartQuizSession
    \/ RenderQuizScreen
    \/ NextQuestion

SpecQuiz == InitQuiz /\ [][NextQuiz]_vars

(***************************************************************************)
(* The quiz: a question is put on screen and answered (app.js, with        *)
(* elo = new EloRating()).  Of handleAnswer the model keeps what reaches   *)
(* State: the rating, the rating history and the XP.                       *)
(***************************************************************************)
MaxAnswers == 3

AppDifficulties == {500, 1200, 1300, 1900}

InitApp ==
    AppLoaded /\ SelIdle /\ EloIdle /\ DynConstructed /\ OtherIdle

\* renderQuizScreen: a word of the queue is shown with enabled options;
\* the first one follows startQuizSession, which seeds the rating history.
RenderQuestion ==
    /\ targetWord = 0 \/ optionsDisabled
    /\ Len(historyRating) <= MaxAnswers
    /\ \E d \in AppDifficulties : targetWord' = d
    /\ optionsDisabled' = FALSE
    /\ historyRating' = IF Len(historyRating) = 0 THEN <<stateRating>>
                        ELSE historyRating
    /\ UNCHANGED <<stateRating, xp, lastAnswer>>
    /\ UNCHANGED <<selVars, eloVars, dynVars, otherVars>>

\* handleAnswer(targetWord, selectedOption, btnElement)
HandleAnswer(isCorrect) ==
    /\ targetWord # 0
    /\ ~optionsDisabled
    /\ optionsDisabled' = TRUE
    /\ LET oldRating == stateRating
           newRating == EloUpdateRating(defaultKFactor, oldRating,
                                        targetWord, isCorrect)
           stored    == StateUpdateRating(historyRating, newRating)
       IN  /\ stateRating' = stored.rating
           /\ historyRating' = stored.history
           /\ lastAnswer' = [answered |-> TRUE, oldRating |-> oldRating,
                             difficulty |-> targetWord,
                             isCorrect |-> isCorrect,
                             newRating |-> stored.rating]
    /\ xp' = xp + (IF isCorrect THEN 10 ELSE 0)
    /\ UNCHANGED targetWord
    /\ UNCHANGED <<selVars, eloVars, dynVars, otherVars>>

Next ==
    \/ RenderQuestion
    \/ \E isCorrect \in BOOLEAN : HandleAnswer(isCorrect)

Spec == InitApp /\ [][Next]_vars

(***************************************************************************)
(* One DynamicKFactorElo object and the calls of its methods, its own and  *)
(* the inherited ones, in any order.                                       *)
(***************************************************************************)
MaxEngineCalls == 5

EngineRatings == {1200, 1226}

EngineDifficulties == {1300}

EngineCatalogs == {SubSeq(MasterCatalog, 1, MaxWords)}

EngineRecentLists == {<<>>, <<2>>}

\* The Math.random() streams of the selections: the lowest and highest draws.
EngineStreams == [1..MaxDraws -> {0, 99}]

\* What the calls on the controller leave alone.
notEngVars == <<eloVars, appVars, ctorVars, loadVars, quizVars, stVars,
                playVars>>

InitEngine ==
    /\ DynConstructed
    /\ NoCall
    /\ words \in EngineCatalogs
    /\ recentWords \in EngineRecentLists
    /\ userRating = DefaultRating
    /\ count = MaxCount
    /\ selected = <<>>
    /\ selPc = "ready"
    /\ EloIdle /\ AppLoaded /\ NotConstructed /\ NotLoaded /\ NoSession
    /\ FirstLoad /\ NotPlaying

\* controller.updateRating(r, d, c)
EngineUpdateRating(r, d, c) ==
    /\ Len(dynCalls) < MaxEngineCalls
    /\ LET history == PushHistory(ratingHistory, r)
           k       == getDynamicK(history)
       IN  /\ ratingHistory' = history
           /\ kFactor' = k
           /\ dynReturn' = EloUpdateRating(k, r, d, c)
           /\ engResult' = EloUpdateRating(k, r, d, c)
    /\ dynCalls' = Append(dynCalls, r)
    /\ engMethod' = "updateRating"
    /\ UNCHANGED <<selVars, notEngVars>>

\* controller.getDynamicK()
EngineGetDynamicK ==
    /\ engMethod' = "getDynamicK"
    /\ engResult' = getDynamicK(ratingHistory)
    /\ UNCHANGED <<selVars, dynVars, notEngVars>>

\* controller.expectedScore(r, d)
EngineExpectedScoreOf(r, d) ==
    /\ engMethod' = "expectedScore"
    /\ engResult' = expectedScore(r, d)
    /\ UNCHANGED <<selVars, dynVars, notEngVars>>

\* controller.informationValue(r, d)
EngineInformationValue(r, d) ==
    /\ engMethod' = "informationValue"
    /\ engResult' = informationValue(r, d)
    /\ UNCHANGED <<selVars, dynVars, notEngVars>>

\* controller.getRatingChange(r, d, c), read with the current this.kFactor
EngineGetRatingChange(r, d, c) ==
    /\ engMethod' = "getRatingChange"
    /\ engResult' = getRatingChange(kFactor, r, d, c)
    /\ UNCHANGED <<selVars, dynVars, notEngVars>>

\* The picked items spliced out of the catalog passed in.
EngineSelectOptimalWordSplicing ==
    /\ engMethod' = "selectOptimalWord"
    /\ \E rnd \in EngineStreams :
          LET sel == selectOptimalWord(words, userRating, recentWords,
                                       count, rnd)
          IN  /\ selected' = sel
              /\ engResult' = Len(sel)
              /\ words' = SelectSeq(words, LAMBDA w :
                             \A i \in 1..Len(sel) : sel[i].word # w.word)
    /\ UNCHANGED <<userRating, recentWords, count, selPc>>
    /\ UNCHANGED <<dynVars, notEngVars>>

\* controller.selectOptimalWord(words, userRating, recentWords, count):
\* filter, map and slice build new arrays; sort and splice work on those.
EngineSelectOptimalWord ==
    /\ engMethod' = "selectOptimalWord"
    /\ \E rnd \in EngineStreams :
          LET sel == selectOptimalWord(words, userRating, recentWords,
                                       count, rnd)
          IN  /\ selected' = sel
              /\ engResult' = Len(sel)
    /\ UNCHANGED <<words, userRating, recentWords, count, selPc>>
    /\ UNCHANGED <<dynVars, notEngVars>>

NextEngine ==
    \/ \E r \in EngineRatings, d \in EngineDifficulties, c \in BOOLEAN :
          EngineUpdateRating(r, d, c)
    \/ EngineGetDynamicK
    \/ \E d \in EngineDifficulties : EngineExpectedScoreOf(DefaultRating, d)
    \/ \E d \in EngineDifficulties :
          EngineInformationValue(DefaultRating, d)
    \/ \E d \in EngineDifficulties, c \in BOOLEAN :
          EngineGetRatingChange(DefaultRating, d, c)
    \/ EngineSelectOptimalWord

SpecEngine == InitEngine /\ [][NextEngine]_vars

(***************************************************************************)
(* The State object used through its operations, in any order and on any   *)
(* day, with the page reloaded or left open in between.                    *)
(***************************************************************************)
MaxStateOps == 4

MaxDay == 4

XpAmounts == {10}

NewRatings == {1213}

SessionStats == {[correct |-> 1]}

\* What the operations of State leave alone.
notStVars == <<selVars, eloVars, dynVars, appVars, ctorVars, loadVars,
               quizVars, engVars, playVars>>

InitState ==
    /\ FirstLoad
    /\ SelIdle /\ EloIdle /\ DynConstructed /\ AppLoaded
    /\ NotConstructed /\ NotLoaded /\ NoSession /\ NoCall /\ NotPlaying

\* DEFAULT_STATE after writes made in place to State.data: the objects
\* and arrays under the shared keys are the ones DEFAULT_STATE holds.
Aliased(d, sh, defaults) ==
    [k \in TopKeys |-> IF k \in sh THEN d[k] ELSE defaults[k]]

\* The end of an operation that leaves d in State.data and calls save().
Saved(op, d, sh) ==
    /\ stOps < MaxStateOps
    /\ data' = d
    /\ shared' = sh
    /\ defaultState' = Aliased(d, sh, defaultState)
    /\ storage' = <<Stringify(d)>>
    /\ savedDay' = today
    /\ stOp' = op
    /\ dataBefore' = data
    /\ stOps' = stOps + 1
    /\ UNCHANGED <<today, notStVars>>

\* The page opened on what the storage holds now and State.load() run
\* there: what it leaves in State.data.
LoadedData(store, day) ==
    IF store = <<>> THEN loadFrom(DEFAULT_STATE, day)
    ELSE loadFrom(deepMerge(DEFAULT_STATE, Parse(store[1])), day)

\* location.reload(): the module evaluated anew, then State.load().
LoadPage ==
    /\ stOps < MaxStateOps
    /\ LET sh == IF storage = <<>> THEN TopKeys ELSE {}
           d  == LoadedData(storage, today)
       IN  /\ data' = d
           /\ shared' = sh
           /\ defaultState' = Aliased(d, sh, DEFAULT_STATE)
           /\ storage' = <<Stringify(d)>>
    /\ dataBefore' = IF storage = <<>> THEN DEFAULT_STATE
                     ELSE deepMerge(DEFAULT_STATE, Parse(storage[1]))
    /\ savedDay' = today
    /\ stOp' = "load"
    /\ stOps' = stOps + 1
    /\ UNCHANGED <<today, lessonLog, notStVars>>

\* The reset button of the settings: localStorage.clear() and a reload.
ResetProgress ==
    /\ stOps < MaxStateOps
    /\ LET d == LoadedData(<<>>, today)
       IN  /\ data' = d
           /\ defaultState' = Aliased(d, TopKeys, DEFAULT_STATE)
           /\ storage' = <<Stringify(d)>>
    /\ shared' = TopKeys
    /\ dataBefore' = DEFAULT_STATE
    /\ savedDay' = today
    /\ stOp' = "load"
    /\ lessonLog' = <<>>
    /\ stOps' = stOps + 1
    /\ UNCHANGED <<today, notStVars>>

\* State.reset(): the item removed, the spread of DEFAULT_STATE, save().
Reset ==
    /\ Saved("reset", defaultState, TopKeys)
    /\ lessonLog' = <<>>

\* State.updateUser({xp: ...}): a new user object.
UpdateUser ==
    /\ Saved("updateUser",
             updateUser(data, [xp |-> data.user.xp + 10]),
             shared \ {"user"})
    /\ UNCHANGED lessonLog

\* addXP leaving the storage as it was.
AddXPUnsaved(amount) ==
    /\ stOps < MaxStateOps
    /\ data' = addXP(data, amount)
    /\ defaultState' = Aliased(addXP(data, amount), shared, defaultState)
    /\ stOp' = "addXP"
    /\ dataBefore' = data
    /\ stOps' = stOps + 1
    /\ UNCHANGED <<shared, storage, savedDay, today, lessonLog, notStVars>>

\* State.addXP(amount)
AddXP(amount) ==
    /\ Saved("addXP", addXP(data, amount), shared)
    /\ UNCHANGED lessonLog

\* State.completeLesson(sessionStats)
CompleteLesson(sessionStats) ==
    /\ Saved("completeLesson", completeLesson(data, today, sessionStats),
             shared)
    /\ lessonLog' = Append(lessonLog, today)

\* State.updateRating(newRating)
UpdateRating(newRating) ==
    /\ Saved("updateRating", updateRating(data, newRating), shared)
    /\ UNCHANGED lessonLog

\* State.trackWordAttempt(word, correct)
TrackWordAttempt(word, correct) ==
    /\ Saved("trackWordAttempt", trackWordAttempt(data, word, correct),
             shared)
    /\ UNCHANGED lessonLog

\* State.unlockAchievement(id): save() only when the id is new.
UnlockAchievement(id) ==
    /\ stOps < MaxStateOps
    /\ IF Includes(data.achievements.unlocked, id)
       THEN /\ stOp' = "unlockAchievement"
            /\ dataBefore' = data
            /\ stOps' = stOps + 1
            /\ UNCHANGED <<data, defaultState, shared, storage, savedDay,
                           today, notStVars>>
       ELSE Saved("unlockAchievement", unlockAchievement(data, id), shared)
    /\ UNCHANGED lessonLog

\* Midnight UTC passes.
DayPasses ==
    /\ today < MaxDay
    /\ today' = today + 1
    /\ UNCHANGED <<data, defaultState, shared, storage, savedDay, stOp,
                   dataBefore, lessonLog, stOps, notStVars>>

NextState ==
    \/ LoadPage
    \/ ResetProgress
    \/ Reset
    \/ UpdateUser
    \/ \E amount \in XpAmounts : AddXP(amount)
    \/ \E sessionStats \in SessionStats : CompleteLesson(sessionStats)
    \/ \E newRating \in NewRatings : UpdateRating(newRating)
    \/ \E word \in StateWords, correct \in BOOLEAN :
          TrackWordAttempt(word, correct)
    \/ \E id \in AchievementIds : UnlockAchievement(id)
    \/ DayPasses

SpecState == InitState /\ [][NextState]_vars

\* The lessons and the days alone: no reset between them.
NextDaily ==
    \/ LoadPage
    \/ \E amount \in XpAmounts : AddXP(amount)
    \/ \E sessionStats \in SessionStats : CompleteLesson(sessionStats)
    \/ DayPasses

SpecDaily == InitState /\ [][NextDaily]_vars

(***************************************************************************)
(* A quiz session played through the page: option clicks, digit keys, the  *)
(* Next button and the Enter key, with renderScreen immediate or deferred. *)
(***************************************************************************)
MaxPlayQueue == 3

\* The difficulties of the queued words, by queue position.
PlayQueue(n) == [i \in 1..n |-> 1100 + 100 * (i % 3)]

PlayQueues == {PlayQueue(n) : n \in 1..MaxPlayQueue}

\* What the play of a session leaves alone.
notPlayVars == <<selVars, eloVars, dynVars, ctorVars, loadVars, quizVars,
                 engVars, stVars>>

\* The page as the handlers see it.
Page ==
    [screen |-> screen, shownIndex |-> shownIndex, targetWord |-> targetWord,
     optionsDisabled |-> optionsDisabled, footerShown |-> footerShown,
     onkeydown |-> onkeydown, presented |-> presented,
     answersOnScreen |-> answersOnScreen, ignoredAnswer |-> ignoredAnswer]

SetPage(pg) ==
    /\ screen' = pg.screen
    /\ shownIndex' = pg.shownIndex
    /\ targetWord' = pg.targetWord
    /\ optionsDisabled' = pg.optionsDisabled
    /\ footerShown' = pg.footerShown
    /\ onkeydown' = pg.onkeydown
    /\ presented' = pg.presented
    /\ answersOnScreen' = pg.answersOnScreen
    /\ ignoredAnswer' = pg.ignoredAnswer

\* The timeout body of renderScreen('quiz', setup): the template copied,
\* then setup reads queue[currentIndex]; past the end that is undefined
\* and word.word throws before any handler is installed.
QuizRendered(pg, sess) ==
    IF sess.currentIndex < Len(sess.queue)
    THEN [pg EXCEPT !.screen = "quiz",
                    !.shownIndex = sess.currentIndex + 1,
                    !.targetWord = sess.queue[sess.currentIndex + 1],
                    !.optionsDisabled = FALSE,
                    !.footerShown = FALSE,
                    !.onkeydown = "digits",
                    !.presented = Append(@, sess.currentIndex + 1),
                    !.answersOnScreen = 0,
                    !.ignoredAnswer = FALSE]
    ELSE [pg EXCEPT !.screen = "quiz",
                    !.shownIndex = 0,
                    !.targetWord = 0,
                    !.optionsDisabled = FALSE,
                    !.footerShown = FALSE]

\* The timeout body of renderScreen('summary', setup).
SummaryRendered(pg) ==
    [pg EXCEPT !.screen = "summary", !.shownIndex = 0, !.targetWord = 0,
               !.optionsDisabled = FALSE, !.footerShown = FALSE]

Rendered(template, pg, sess) ==
    IF template = "quiz" THEN QuizRendered(pg, sess) ELSE SummaryRendered(pg)

\* startQuizSession() just made: the history seeded, the first
\* renderQuizScreen() called.
InitPlay ==
    /\ playSession \in [queue : PlayQueues, currentIndex : {0},
                         correctCount : {0}, xpEarned : {0},
                         currentStreak : {0}, maxStreak : {0}]
    /\ deferred \in BOOLEAN
    /\ stateRating = DefaultRating
    /\ historyRating = <<DefaultRating>>
    /\ xp = 0
    /\ lastAnswer = NoAnswer
    /\ processed = [i \in 1..Len(playSession.queue) |-> 0]
    /\ finishCount = 0
    /\ LET home == [screen |-> "home", shownIndex |-> 0, targetWord |-> 0,
                    optionsDisabled |-> FALSE, footerShown |-> FALSE,
                    onkeydown |-> "null", presented |-> <<>>,
                    answersOnScreen |-> 0, ignoredAnswer |-> FALSE]
           pg   == IF deferred THEN home
                   ELSE QuizRendered(home, playSession)
       IN  /\ screen = pg.screen
           /\ shownIndex = pg.shownIndex
           /\ targetWord = pg.targetWord
           /\ optionsDisabled = pg.optionsDisabled
           /\ footerShown = pg.footerShown
           /\ onkeydown = pg.onkeydown
           /\ presented = pg.presented
           /\ answersOnScreen = pg.answersOnScreen
           /\ ignoredAnswer = pg.ignoredAnswer
    /\ timers = IF deferred THEN <<"quiz">> ELSE <<>>
    /\ SelIdle /\ EloIdle /\ DynConstructed
    /\ NotConstructed /\ NotLoaded /\ NoSession /\ NoCall /\ FirstLoad

\* A timeout of renderScreen runs.
TimerFires ==
    /\ timers # <<>>
    /\ SetPage(Rendered(Head(timers), Page, playSession))
    /\ timers' = Tail(timers)
    /\ UNCHANGED <<playSession, deferred, processed, finishCount>>
    /\ UNCHANGED <<stateRating, historyRating, xp, lastAnswer, notPlayVars>>

\* The session counters of handleAnswer.
Counted(sess, isCorrect) ==
    IF isCorrect
    THEN [sess EXCEPT
            !.correctCount = @ + 1,
            !.xpEarned = @ + 10 + (IF sess.currentStreak + 1 >= 3 THEN 5
                                   ELSE 0),
            !.currentStreak = @ + 1,
            !.maxStreak = IF sess.currentStreak + 1 > @
                          THEN sess.currentStreak + 1 ELSE @]
    ELSE [sess EXCEPT !.currentStreak = 0]

\* The body of handleAnswer behind its guard.
AnswerProcessed(isCorrect) ==
    /\ LET oldRating == stateRating
           newRating == EloUpdateRating(defaultKFactor, oldRating,
                                        targetWord, isCorrect)
           stored    == StateUpdateRating(historyRating, newRating)
       IN  /\ stateRating' = stored.rating
           /\ historyRating' = stored.history
           /\ lastAnswer' = [answered |-> TRUE, oldRating |-> oldRating,
                             difficulty |-> targetWord,
                             isCorrect |-> isCorrect,
                             newRating |-> stored.rating]
    /\ xp' = xp + (IF isCorrect THEN 10 ELSE 0)
    /\ playSession' = Counted(playSession, isCorrect)
    /\ processed' = [processed EXCEPT ![shownIndex] = @ + 1]
    /\ answersOnScreen' = answersOnScreen + 1
    /\ optionsDisabled' = TRUE
    /\ footerShown' = TRUE
    /\ onkeydown' = "enter"
    /\ UNCHANGED <<screen, shownIndex, targetWord, presented, ignoredAnswer>>

AnswerDiscarded ==
    /\ ignoredAnswer' = TRUE
    /\ UNCHANGED <<screen, shownIndex, targetWord, presented, footerShown,
                   onkeydown, optionsDisabled, answersOnScreen, processed,
                   playSession, stateRating, historyRating, xp, lastAnswer>>

\* The answer event reaches a handler: a click on an option button of the
\* question on screen, or a key 1-4 while the digit handler is installed.
AnswerArrives(via) ==
    /\ screen = "quiz"
    /\ shownIndex # 0
    /\ via = "key" => onkeydown = "digits"

\* handleAnswer without its guard.
HandleAnswerUnguarded(via, isCorrect) ==
    /\ AnswerArrives(via)
    /\ answersOnScreen <= MaxPlayQueue
    /\ AnswerProcessed(isCorrect)
    /\ UNCHANGED <<deferred, timers, finishCount, notPlayVars>>

\* handleAnswer(word, option, button) called by a click or a digit key:
\* it returns at once when an option button is disabled.
HandlePlayAnswer(via, isCorrect) ==
    /\ AnswerArrives(via)
    /\ IF optionsDisabled THEN AnswerDiscarded
       ELSE AnswerProcessed(isCorrect)
    /\ UNCHANGED <<deferred, timers, finishCount, notPlayVars>>

\* finishQuizSession(): the final rating stored when the history lacks it.
FinalHistory ==
    IF Includes(historyRating, stateRating) THEN historyRating
    ELSE StateUpdateRating(historyRating, stateRating).history

\* handleNext(): the bar hidden, then nextQuestion(); renderScreen renders
\* at once or leaves a timeout.
HandleNext ==
    LET sess == [playSession EXCEPT !.currentIndex = @ + 1]
        done == sess.currentIndex >= Len(sess.queue)
        template == IF done THEN "summary" ELSE "quiz"
        hidden == [Page EXCEPT !.footerShown = FALSE,
                               !.onkeydown = IF done THEN "null" ELSE @]
    IN  /\ playSession' = sess
        /\ finishCount' = IF done THEN finishCount + 1 ELSE finishCount
        /\ historyRating' = IF done THEN FinalHistory ELSE historyRating
        /\ IF deferred
           THEN /\ timers' = Append(timers, template)
                /\ SetPage(hidden)
           ELSE /\ timers' = timers
                /\ SetPage(Rendered(template, hidden, sess))
        /\ UNCHANGED <<deferred, processed, stateRating, xp, lastAnswer,
                       notPlayVars>>

\* A click on the Next button of the visible feedback bar.
ClickNext ==
    /\ screen = "quiz"
    /\ footerShown
    /\ HandleNext

\* The Enter key while the handler of handleAnswer is installed.
PressEnter ==
    /\ onkeydown = "enter"
    /\ HandleNext

NextPlay ==
    \/ TimerFires
    \/ \E via \in {"click", "key"}, isCorrect \in BOOLEAN :
          HandlePlayAnswer(via, isCorrect)
    \/ ClickNext
    \/ PressEnter

SpecPlay == InitPlay /\ [][NextPlay]_vars

(***************************************************************************)
(* Vocabulary of the selection claims, in terms of the call's arguments.   *)
(***************************************************************************)
NonRecentAt(i) ==
    \A j \in 1..Len(recentWords) : recentWords[j] # words[i].word

NonRecentIdx == { i \in 1..Len(words) : NonRecentAt(i) }

AccuracyAt(i) == expectedScore(userRating, words[i].difficulty)

InfoAt(i) == informationValue(userRating, words[i].difficulty)

InBandIdx ==
    { i \in NonRecentIdx : AccuracyAt(i) > 200000 /\ AccuracyAt(i) < 900000 }

\* The k-th non-recent entry of the catalog, in catalog order.
KthNonRecent(k) ==
    CHOOSE i \in NonRecentIdx :
        Cardinality({ j \in NonRecentIdx : j <= i }) = k

\* Position in the catalog of a returned item (words are unique there).
IdxOf(item) == CHOOSE i \in 1..Len(words) : words[i].word = item.word

SelectedIdx == { IdxOf(selected[k]) : k \in 1..Len(selected) }

RankedPath == selPc = "done" /\ InBandIdx # {}

FallbackPath == selPc = "done" /\ InBandIdx = {}

\* C1: no returned item has its word in the recent-word list, on the
\* ranked path and on the fallback path alike.
C1_NoRecentReturned ==
    selPc = "done" =>
        \A k \in 1..Len(selected) :
            /\ \E i \in 1..Len(words) : words[i].word = selected[k].word
            /\ \A j \in 1..Len(recentWords) :
                   recentWords[j] # selected[k].word

C1_Witness ==
    /\ RankedPath
    /\ Len(selected) >= 2
    /\ \E i \in 1..Len(words) :
          /\ ~NonRecentAt(i)
          /\ AccuracyAt(i) > 200000 /\ AccuracyAt(i) < 900000
          /\ \E k \in SelectedIdx : InfoAt(i) > InfoAt(k)

\* C2 as stated: whenever at least count non-recent items exist, exactly
\* count items are returned.
C2_Original ==
    selPc = "done" =>
        (Cardinality(NonRecentIdx) >= count => Len(selected) = count)

\* C2 amended: the result has min(count, non-recent) items when no
\* non-recent item is in the answerable band, and min(count, 20, non-recent
\* in-band) items otherwise.
C2_ResultLength ==
    selPc = "done" =>
        Len(selected) =
            IF InBandIdx = {}
            THEN Min(count, Cardinality(NonRecentIdx))
            ELSE Min(count, Min(20, Cardinality(InBandIdx)))

C2_Witness ==
    /\ RankedPath
    /\ Cardinality(NonRecentIdx) >= count
    /\ Len(selected) < count
    /\ Len(selected) = Cardinality(InBandIdx)

C2_WitnessPoolCap ==
    /\ RankedPath
    /\ count > 20
    /\ Cardinality(InBandIdx) >= count
    /\ Len(selected) = 20

\* C3: with no non-recent item in the answerable band the result is the
\* first min(count, non-recent) non-recent items in catalog order, hence
\* empty only when every catalog item is recent.
C3_FallbackInCatalogOrder ==
    FallbackPath =>
        /\ Len(selected) = Min(count, Cardinality(NonRecentIdx))
        /\ \A k \in 1..Len(selected) : selected[k] = words[KthNonRecent(k)]
        /\ (selected = <<>> => NonRecentIdx = {})

C3_Witness ==
    /\ FallbackPath
    /\ Len(selected) >= 2
    /\ Len(selected) < Cardinality(NonRecentIdx)
    /\ \E i \in 1..Len(words) : ~NonRecentAt(i) /\ i < KthNonRecent(2)

\* C4: when some non-recent item is in the answerable band, every returned
\* item has expected accuracy strictly between 0.2 and 0.9.
C4_ReturnedInBand ==
    RankedPath =>
        \A k \in 1..Len(selected) :
            /\ expectedScore(userRating, selected[k].difficulty) > 200000
            /\ expectedScore(userRating, selected[k].difficulty) < 900000

C4_Witness ==
    /\ RankedPath
    /\ Len(selected) >= 1
    /\ Len(selected) < count
    /\ \E i \in NonRecentIdx : AccuracyAt(i) >= 900000
    /\ \E i \in NonRecentIdx : AccuracyAt(i) <= 200000

\* Entries of S of strictly higher information value than entry i.
Better(i, S) == { j \in S : InfoAt(j) > InfoAt(i) }

\* Entries that can be in the pool: fewer than 20 in-band candidates are
\* strictly more informative.
PoolIdx ==
    LET inBand == InBandIdx
    IN  { i \in inBand : Cardinality(Better(i, inBand)) < 20 }

\* C5: on the ranked path the result has min(count, min(20, in-band))
\* pairwise distinct items of the pool of the 20 most informative in-band
\* candidates, and each pick is one of the 5 most informative candidates
\* left in the pool when it is made.
C5_RankedPicks ==
    RankedPath =>
        LET pool   == PoolIdx
            picked == [k \in 1..Len(selected) |-> IdxOf(selected[k])]
        IN  /\ Len(selected) = Min(count, Min(20, Cardinality(InBandIdx)))
            /\ \A k, m \in 1..Len(selected) :
                   k # m => selected[k].word # selected[m].word
            /\ \A k \in 1..Len(selected) :
                   /\ picked[k] \in pool
                   /\ words[picked[k]].word = selected[k].word
                   /\ Cardinality(Better(picked[k],
                          pool \ { picked[m] : m \in 1..(k - 1) })) < 5

C5_Witness ==
    /\ RankedPath
    /\ Cardinality(InBandIdx) > 20
    /\ Len(selected) >= 2
    /\ \E i \in InBandIdx : i \notin PoolIdx
    /\ Cardinality(Better(IdxOf(selected[1]), PoolIdx)) = 4
    /\ Cardinality(Better(IdxOf(selected[2]), PoolIdx)) = 5

\* A list of at most count items, each an item of the catalog passed.
IsListOfCatalogItems(l) ==
    /\ Len(l) <= count
    /\ \A k \in 1..Len(l) :
           \E i \in 1..Len(words) :
               /\ words[i].word = l[k].word
               /\ words[i].difficulty = l[k].difficulty

\* C16: for every catalog, rating, recent list and count >= 1, and
\* whatever Math.random yields, the call returns a list of at most count
\* catalog items; the list is empty when the catalog is fully covered by
\* the recent list.
C16_AlwaysReturnsList ==
    /\ (selPc = "ready" => count >= 1)
    /\ (selPc = "done" =>
            /\ IsListOfCatalogItems(selected)
            /\ (NonRecentIdx = {} => selected = <<>>))

C16_Witness ==
    /\ selPc = "done"
    /\ Len(words) >= 2
    /\ NonRecentIdx = {}
    /\ selected = <<>>

(***************************************************************************)
(* Claims about DynamicKFactorElo (SpecDyn).                               *)
(***************************************************************************)
RECURSIVE SumOfDifferences(_, _, _)
\* h[lo] - h[lo-1] + ... + h[hi] - h[hi-1]
SumOfDifferences(h, lo, hi) ==
    IF lo > hi THEN 0
    ELSE (h[hi] - h[hi - 1]) + SumOfDifferences(h, lo, hi - 1)

WindowTrend(h) == SumOfDifferences(h, Len(h) - window + 2, Len(h))

ExpectedK(h) ==
    IF Len(h) < window THEN kBase
    ELSE IF WindowTrend(h) > window * 5 \/ WindowTrend(h) < -(window * 5)
         THEN kMax
         ELSE kMin

\* C6: getDynamicK is kBase while the history has fewer than window
\* entries, else kMax when the summed consecutive differences of the last
\* window entries exceed window*5 in absolute value, and kMin when they
\* do not.
C6_DynamicK ==
    /\ getDynamicK(ratingHistory) = ExpectedK(ratingHistory)
    /\ kFactor = ExpectedK(ratingHistory)

C6_Witness ==
    /\ Len(ratingHistory) > window
    /\ WindowTrend(ratingHistory) = window * 5
    /\ kFactor = kMin
    /\ SumOfDifferences(ratingHistory, 2, Len(ratingHistory)) < 0

\* C7: the history has at most 2*window entries and is, in call order, the
\* pre-update ratings of the most recent min(calls, 2*window) calls.
C7_HistoryIsRecentCalls ==
    /\ Len(ratingHistory) <= 2 * window
    /\ Len(ratingHistory) = Min(Len(dynCalls), 2 * window)
    /\ \A i \in 1..Len(ratingHistory) :
           ratingHistory[i] =
               dynCalls[Len(dynCalls) - Len(ratingHistory) + i]

C7_Witness ==
    /\ Len(dynCalls) > 2 * window
    /\ Len(ratingHistory) = 2 * window
    /\ dynCalls[1] # dynCalls[2]
    /\ dynCalls[Len(dynCalls)] # dynCalls[Len(dynCalls) - 1]
    /\ ratingHistory[1] = dynCalls[2]

\* The userRating of the latest updateRating call.
LatestCall == dynCalls[Len(dynCalls)]

\* C23: the pre-update rating is in the history when K is computed and K
\* is the one the returned rating is computed with: calls 1..window-1 on a
\* fresh controller use kBase, the call number window and every later one
\* use kMin or kMax, and kFactor is always one of kBase, kMin, kMax.
C23_PushThenKThenDelta ==
    /\ kFactor \in {kBase, kMin, kMax}
    /\ (Len(dynCalls) >= 1 =>
            /\ ratingHistory[Len(ratingHistory)] = LatestCall
            /\ kFactor = ExpectedK(ratingHistory)
            /\ (Len(dynCalls) < window => kFactor = kBase)
            /\ (Len(dynCalls) >= window => kFactor \in {kMin, kMax})
            /\ \E d \in DynDifficulties, c \in BOOLEAN :
                   dynReturn = EloUpdateRating(kFactor, LatestCall, d, c))

C23_Witness ==
    /\ Len(dynCalls) = window
    /\ kFactor = kMax
    /\ \A d \in DynDifficulties, c \in BOOLEAN :
           dynReturn # EloUpdateRating(kBase, LatestCall, d, c)

(***************************************************************************)
(* Claims about the State object (SpecState).                              *)
(***************************************************************************)
\* What a reload of the page made now would leave in State.data.
Reloaded == LoadedData(storage, today)

\* The rating, XP, histories and word mastery come back as they are.
ProgressRestored ==
    /\ Reloaded.user.rating = data.user.rating
    /\ Reloaded.user.xp = data.user.xp
    /\ Reloaded.historyRating = data.historyRating
    /\ Reloaded.historySessions = data.historySessions
    /\ Reloaded.wordMastery = data.wordMastery

\* The last lesson lies more than one day back.
StreakLapsed ==
    /\ data.user.lastActiveDate # NullDate
    /\ today - data.user.lastActiveDate > 1

\* C21 as stated: the storage holds the serialisation of State.data, and a
\* reload on the day of the last save restores the same rating, XP, streak,
\* histories and word mastery.
C21_Original ==
    /\ storage = <<Stringify(data)>>
    /\ (savedDay = today =>
            ProgressRestored /\ Reloaded.user.streak = data.user.streak)

\* C21: the storage holds the serialisation of State.data; a reload
\* restores the same rating, XP, histories and word mastery, and the same
\* streak unless the last lesson lies more than one day before the reload,
\* in which case the reload restores a streak of 0.
C21_Persisted ==
    /\ storage = <<Stringify(data)>>
    /\ ProgressRestored
    /\ Reloaded.user.streak = IF StreakLapsed THEN 0 ELSE data.user.streak

C21_Witness ==
    /\ stOp = "trackWordAttempt"
    /\ savedDay = today
    /\ data.user.rating # DefaultRating
    /\ data.user.xp > 0
    /\ data.user.streak = 1
    /\ Len(data.historyRating) = 1
    /\ Len(data.historySessions) = 1
    /\ \E w \in StateWords : data.wordMastery[w].attempts = 1

\* The days between the last active date the operation found and its day.
DaysSinceActive == savedDay - dataBefore.user.lastActiveDate

NeverActive == dataBefore.user.lastActiveDate = NullDate

\* C24: completeLesson sets the streak to 1 when there was no last active
\* date, adds 1 when the last active date was the day before, leaves it
\* when the last active date is the same day, and sets it to 1 after a gap
\* of more than one day; load sets it to 0 when the last active date lies
\* more than one day back.
C24_Streak ==
    /\ (stOp = "completeLesson" =>
            /\ (NeverActive => data.user.streak = 1)
            /\ (~NeverActive /\ DaysSinceActive = 1 =>
                    data.user.streak = dataBefore.user.streak + 1)
            /\ (~NeverActive /\ DaysSinceActive = 0 =>
                    data.user.streak = dataBefore.user.streak)
            /\ (~NeverActive /\ DaysSinceActive > 1 => data.user.streak = 1)
            /\ data.user.lastActiveDate = savedDay)
    /\ (stOp = "load" /\ ~NeverActive /\ DaysSinceActive > 1 =>
            data.user.streak = 0)

C24_Witness ==
    /\ stOp = "completeLesson"
    /\ ~NeverActive
    /\ DaysSinceActive = 1
    /\ dataBefore.user.streak = 1
    /\ data.user.streak = 2

\* C27 as stated: after State.reset() the state is the pristine default:
\* rating 1200, xp 0, level 1, streak 0, total counters 0, and the rating
\* history, session history, word mastery and unlocked achievements empty.
C27_Original ==
    stOp = "reset" =>
        /\ data.user.rating = DefaultRating
        /\ data.user.xp = 0
        /\ data.user.level = 1
        /\ data.user.streak = 0
        /\ data.user.totalSessions = 0
        /\ data.user.totalCorrect = 0
        /\ data.user.totalAttempts = 0
        /\ data.historyRating = <<>>
        /\ data.historySessions = <<>>
        /\ \A w \in StateWords : data.wordMastery[w] = NoMastery
        /\ data.achievements.unlocked = <<>>

\* The lessons completed on the day of the last operation.
LessonsOn(day) == Cardinality({i \in 1..Len(lessonLog) : lessonLog[i] = day})

\* C28 as stated: after completeLesson on day D, and after a load,
\* daily.lessonsToday is the number of completeLesson calls made on that
\* day, whether or not the page was reloaded since the day changed.
C28_Original ==
    stOp \in {"completeLesson", "load"} =>
        data.daily.lessonsToday = LessonsOn(savedDay)

(***************************************************************************)
(* Claims about the play of a session (SpecPlay).                          *)
(***************************************************************************)
\* How often queue position i was rendered.
TimesPresented(i) ==
    Cardinality({j \in 1..Len(presented) : presented[j] = i})

RECURSIVE SumTo(_, _)
SumTo(f, n) == IF n = 0 THEN 0 ELSE f[n] + SumTo(f, n - 1)

\* The answers that went through the updates of handleAnswer.
TotalProcessed == SumTo(processed, Len(processed))

\* C25: however many clicks and digit keys arrive, the question on screen
\* goes through the rating, XP and attempt updates at most once, so no
\* queue position is processed more often than it was presented; with
\* renderScreen rendering at once that is at most once per queued word.
C25_AnswerOnce ==
    /\ answersOnScreen <= 1
    /\ \A i \in 1..Len(processed) : processed[i] <= TimesPresented(i)
    /\ (~deferred => \A i \in 1..Len(processed) : processed[i] <= 1)

C25_Witness ==
    /\ answersOnScreen = 1
    /\ ignoredAnswer
    /\ shownIndex >= 2

\* C26 as stated: the queued words are presented once each in queue
\* order, currentIndex is the number of answered questions (less one
\* between an answer and its Next), nothing is rendered past the end of
\* the queue, and the session is finished at most once, after every
\* queued word was answered.
C26_Original ==
    /\ presented = [i \in 1..Len(presented) |-> i]
    /\ playSession.currentIndex <= TotalProcessed
    /\ TotalProcessed <= playSession.currentIndex + 1
    /\ ~(screen = "quiz" /\ shownIndex = 0)
    /\ finishCount <= 1
    /\ (finishCount = 1 =>
            \A i \in 1..Len(processed) : processed[i] = 1)

\* The state of the controller object: its fields that a method assigns.
engineState == <<ratingHistory, kFactor>>

\* C22: a call of any method other than DynamicKFactorElo.updateRating
\* leaves the controller's ratingHistory and kFactor as they were, and a
\* call of selectOptimalWord leaves the catalog and the recent-words list
\* passed to it as they were.
C22_OnlyUpdateRatingMutates ==
    [][ /\ (engMethod' # "updateRating" => UNCHANGED engineState)
        /\ (engMethod' = "selectOptimalWord" =>
                UNCHANGED <<words, recentWords>>) ]_vars

C22_Witness ==
    /\ engMethod = "selectOptimalWord"
    /\ Len(selected) = MaxCount
    /\ Len(ratingHistory) >= window
    /\ kFactor = kMax

(***************************************************************************)
(* Claims about EloRating.updateRating (SpecElo, Spec).                    *)
(***************************************************************************)
EloCallOf(k, r, d, c) ==
    /\ eloPc = "done"
    /\ eloArgs = [kFactor |-> k, userRating |-> r, wordDifficulty |-> d,
                  isCorrect |-> c]

\* C8 as stated: with kFactor 25 and beta 200, updateRating(1200, 1200,
\* true) returns 1212.
C8_Original == EloCallOf(25, 1200, 1200, TRUE) => eloResult = 1212

\* userRating + kFactor * (actual - expected) of the call made, times Scale.
Unrounded ==
    eloArgs.userRating * Scale
        + eloArgs.kFactor
              * ((IF eloArgs.isCorrect THEN Scale ELSE 0)
                     - expectedScore(eloArgs.userRating,
                                     eloArgs.wordDifficulty))

\* C9: updateRating returns an integer within 0.5 of userRating +
\* kFactor * (actual - expected), and updateRating(1200, 1200, false) with
\* kFactor 25 returns 1188.
C9_RoundedToNearest ==
    eloPc = "done" =>
        /\ eloResult * Scale - Unrounded <= Scale \div 2
        /\ Unrounded - eloResult * Scale <= Scale \div 2
        /\ (EloCallOf(25, 1200, 1200, FALSE) => eloResult = 1188)

C9_Witness ==
    /\ EloCallOf(25, 1200, 1200, FALSE)
    /\ Unrounded = 1187 * Scale + (Scale \div 2)
    /\ eloResult = 1188

\* What a correct answer on a word of difficulty d adds to rating r.
GainOnCorrect(r, d) ==
    StateUpdateRating(<<>>, EloUpdateRating(defaultKFactor, r, d, TRUE)).rating
        - r

\* C10 as stated: a correct answer leaves the stored rating strictly
\* higher and an incorrect one strictly lower, and a correct answer on a
\* harder word raises the rating at least as much as on an easier word.
C10_Original ==
    lastAnswer.answered =>
        /\ (lastAnswer.isCorrect =>
                lastAnswer.newRating > lastAnswer.oldRating)
        /\ (~lastAnswer.isCorrect =>
                lastAnswer.newRating < lastAnswer.oldRating)
        /\ \A d1, d2 \in AppDifficulties :
               d1 < d2 => GainOnCorrect(lastAnswer.oldRating, d2)
                              >= GainOnCorrect(lastAnswer.oldRating, d1)

(***************************************************************************)
(* Claims about the other EloRating methods (SpecElo).                     *)
(***************************************************************************)
\* actual - expected of the call made, times Scale.
Surprise ==
    (IF eloArgs.isCorrect THEN Scale ELSE 0)
        - expectedScore(eloArgs.userRating, eloArgs.wordDifficulty)

\* C11: getRatingChange lies in [0, kFactor] for a correct answer and in
\* [-kFactor, 0] for an incorrect one, never has the sign opposite to
\* actual - expected, is strictly positive for a correct answer on a word
\* harder than the learner and strictly negative for an incorrect answer
\* on an easier word.
C11_RatingChangeSign ==
    eloPc = "change" =>
        /\ (eloArgs.isCorrect =>
                eloResult >= 0 /\ eloResult <= eloArgs.kFactor)
        /\ (~eloArgs.isCorrect =>
                eloResult <= 0 /\ eloResult >= -eloArgs.kFactor)
        /\ (Surprise > 0 => eloResult >= 0)
        /\ (Surprise < 0 => eloResult <= 0)
        /\ (eloArgs.isCorrect /\ eloArgs.wordDifficulty > eloArgs.userRating
                => eloResult > 0)
        /\ (~eloArgs.isCorrect /\ eloArgs.wordDifficulty < eloArgs.userRating
                => eloResult < 0)

C11_Witness ==
    /\ eloPc = "change"
    /\ eloArgs.isCorrect
    /\ eloArgs.wordDifficulty > eloArgs.userRating
    /\ eloResult > eloArgs.kFactor \div 2
    /\ eloResult < eloArgs.kFactor

\* wordDifficulty - userRating of the call made.
Gap == eloArgs.wordDifficulty - eloArgs.userRating

\* C12 as stated: expectedScore is strictly between 0 and 1 for all
\* ratings and difficulties.
C12_Original == eloPc = "score" => eloResult > 0 /\ eloResult < Scale

\* C12 amended: expectedScore lies in [0, 1]; with beta 200 it is strictly
\* inside while the difficulty is less than 6382 below and less than 123302
\* above the rating, exactly 1 from 6382 below on and exactly 0 from 123302
\* above on.
C12_ScoreRange ==
    eloPc = "score" =>
        /\ eloResult >= 0 /\ eloResult <= Scale
        /\ (Gap > -6382 /\ Gap < 123302 => eloResult > 0 /\ eloResult < Scale)
        /\ (Gap <= -6382 => eloResult = Scale)
        /\ (Gap >= 123302 => eloResult = 0)

C12_Witness ==
    /\ eloPc = "score"
    /\ Gap <= -6382
    /\ eloResult = Scale

C12_WitnessZero ==
    /\ eloPc = "score"
    /\ Gap >= 123302
    /\ eloResult = 0

\* expectedScore(r, d2) against the score of the call made, for d2 above the
\* difficulty passed.
ScoreAt(d2) == expectedScore(eloArgs.userRating, d2)

HarderThanPassed ==
    { d2 \in EloDifficulties \cup {eloArgs.wordDifficulty + 1} :
          d2 > eloArgs.wordDifficulty }

C13_WitnessPlateau ==
    /\ eloPc = "score"
    /\ \E d2 \in HarderThanPassed : d2 - eloArgs.userRating <= -6382

\* expectedScore of the arguments of the call made.
ScoreOfCall == expectedScore(eloArgs.userRating, eloArgs.wordDifficulty)

\* C14: informationValue is a number that is never negative, is 0 whenever
\* expectedScore is at or beyond 0 or 1, and for a fixed rating is largest
\* (1 bit) when the difficulty equals the rating.
C14_InformationValue ==
    eloPc = "info" =>
        /\ eloResult \in 0..Scale
        /\ (ScoreOfCall <= 0 \/ ScoreOfCall >= Scale => eloResult = 0)
        /\ eloResult
               <= informationValue(eloArgs.userRating, eloArgs.userRating)
        /\ (Gap = 0 => eloResult = Scale)
        /\ (Gap # 0 => eloResult < Scale)

C14_Witness ==
    /\ eloPc = "info"
    /\ ScoreOfCall = Scale
    /\ eloResult = 0

C14_WitnessPeak ==
    /\ eloPc = "info"
    /\ Abs(Gap) = 1
    /\ eloResult > 0
    /\ eloResult < informationValue(eloArgs.userRating, eloArgs.userRating)

(***************************************************************************)
(* Claims about the constructors (SpecCtor).                               *)
(***************************************************************************)
\* C15 as stated: no engine object exists with a non-positive beta, kFactor
\* or kBase, and no expectedScore call is answered by one.
C15_Original ==
    engine.class # "none" =>
        /\ engine.kFactor > 0
        /\ engine.beta > 0
        /\ (engine.class = "DynamicKFactorElo" => engine.kBase > 0)
        /\ ~engineScore.isNaN

(***************************************************************************)
(* Claims about loadWords (SpecLoad).                                      *)
(***************************************************************************)
\* An element with a non-empty word, definition and part of speech and a
\* numeric difficulty.
WellFormed(e) ==
    /\ ~e.isNull
    /\ e.word # "" /\ e.definition # "" /\ e.pos # ""
    /\ e.typeofDifficulty = "number"

WellFormedIdx ==
    { i \in 1..Len(fetchOutcome.body) : WellFormed(fetchOutcome.body[i]) }

\* The fetch failed, the payload is not a non-empty array, or no entry is
\* valid.
NothingToLoad ==
    \/ fetchOutcome.fetch = "rejected"
    \/ ~fetchOutcome.ok
    \/ fetchOutcome.json # "array"
    \/ Len(fetchOutcome.body) = 0
    \/ WellFormedIdx = {}

IsFallbackCatalog(c) ==
    /\ Len(c) = 3
    /\ c[1].word = "ephemeral" /\ c[1].pos = "a" /\ c[1].difficulty = 1200
    /\ c[2].word = "serendipity" /\ c[2].pos = "n" /\ c[2].difficulty = 1200
    /\ c[3].word = "ubiquitous" /\ c[3].pos = "a" /\ c[3].difficulty = 1300

\* The k-th well-formed element of the payload.
KthWellFormed(k) ==
    CHOOSE i \in WellFormedIdx :
        Cardinality({ j \in WellFormedIdx : j <= i }) = k

\* C17: loadWords never rejects and resolves to a non-empty catalog of
\* well-formed entries: the fallback catalog when the fetch fails, the
\* payload is not a non-empty array or no entry is valid, and otherwise
\* either the payload's well-formed entries in order, the others dropped,
\* or (a null element in the payload) the fallback catalog.
C17_LoadWords ==
    loadStatus \notin {"idle", "pending"} =>
        /\ loadStatus = "fulfilled"
        /\ Len(allWords) >= 1
        /\ \A k \in 1..Len(allWords) : WellFormed(allWords[k])
        /\ (NothingToLoad => IsFallbackCatalog(allWords))
        /\ \/ IsFallbackCatalog(allWords)
           \/ /\ Len(allWords) = Cardinality(WellFormedIdx)
              /\ \A k \in 1..Len(allWords) :
                     allWords[k] = fetchOutcome.body[KthWellFormed(k)]
        /\ (~NothingToLoad
               /\ (\A i \in 1..Len(fetchOutcome.body) :
                       ~fetchOutcome.body[i].isNull)
               => Len(allWords) = Cardinality(WellFormedIdx))

C17_Witness ==
    /\ loadStatus = "fulfilled"
    /\ Len(fetchOutcome.body) = 3
    /\ Len(allWords) = 2
    /\ ~WellFormed(fetchOutcome.body[2])
    /\ allWords[2] = fetchOutcome.body[3]

C17_WitnessFallback ==
    /\ loadStatus = "fulfilled"
    /\ fetchOutcome.json = "array"
    /\ Len(fetchOutcome.body) >= 1
    /\ WellFormedIdx = {}
    /\ IsFallbackCatalog(allWords)

(***************************************************************************)
(* Claims about the quiz session (SpecQuiz).                               *)
(***************************************************************************)
\* The word asked by the question on screen.
CorrectWord == quizSession.queue[quizSession.currentIndex + 1]

\* Catalog positions of the other words of the correct word's part of
\* speech.
SamePosOthers ==
    { i \in 1..Len(allWords) :
          /\ allWords[i].word # CorrectWord.word
          /\ allWords[i].pos = CorrectWord.pos }

\* Option positions that do not hold the correct word.
DistractorIdx ==
    { k \in 1..Len(options) : options[k].word # CorrectWord.word }

\* C18: the options hold the correct item exactly once and no other item
\* with its word; every distractor is another catalog item, and has the
\* correct item's part of speech when at least 3 other catalog items have
\* it; distractors of another part of speech appear only when fewer than
\* 3 do.
C18_Options ==
    quizPc = "question" =>
        /\ Cardinality({ k \in 1..Len(options) : options[k] = CorrectWord })
               = 1
        /\ Cardinality(DistractorIdx) = Len(options) - 1
        /\ \A k \in DistractorIdx :
               \E i \in 1..Len(allWords) : allWords[i] = options[k]
        /\ (Cardinality(SamePosOthers) >= 3 =>
               \A k \in DistractorIdx : options[k].pos = CorrectWord.pos)
        /\ ((\E k \in DistractorIdx : options[k].pos # CorrectWord.pos)
               => Cardinality(SamePosOthers) < 3)

C18_Witness ==
    /\ quizPc = "question"
    /\ Cardinality(SamePosOthers) = 3
    /\ \E i \in 1..Len(allWords) : allWords[i].pos # CorrectWord.pos
    /\ Len(options) = 4
    /\ options[4] # CorrectWord

C18_WitnessWidened ==
    /\ quizPc = "question"
    /\ Cardinality(SamePosOthers) = 2
    /\ Len(options) = 4
    /\ \E k \in DistractorIdx : options[k].pos # CorrectWord.pos

\* C19 as stated: every question on screen has exactly 4 options, 3
\* distractors and the correct word.
C19_Original ==
    quizPc = "question" =>
        /\ Len(options) = 4
        /\ Cardinality(DistractorIdx) = 3

\* Catalog words strictly closer to the session's start rating than w.
CloserThan(w) ==
    { i \in 1..Len(allWords) :
          Abs(allWords[i].difficulty - quizSession.startRating)
              < Abs(w.difficulty - quizSession.startRating) }

\* C20: the queue has min(10, catalog size) pairwise distinct words, each
\* a catalog word with fewer than 50 catalog words strictly closer to the
\* rating the session started with.
C20_SessionQueue ==
    quizSession.started =>
        LET queue == quizSession.queue
        IN  /\ Len(queue) = Min(10, Len(allWords))
            /\ \A k, m \in 1..Len(queue) :
                   k # m => queue[k].word # queue[m].word
            /\ \A k \in 1..Len(queue) :
                   /\ \E i \in 1..Len(allWords) : allWords[i] = queue[k]
                   /\ Cardinality(CloserThan(queue[k])) < 50

C20_Witness ==
    /\ quizSession.started
    /\ Len(allWords) > 50
    /\ Len(quizSession.queue) = 10
    /\ \E k \in 1..10 :
          Cardinality(CloserThan(quizSession.queue[k])) = 49
    /\ \E i \in 1..Len(allWords) :
          Cardinality(CloserThan(allWords[i])) >= 50

C20_WitnessShort ==
    /\ quizSession.started
    /\ Len(quizSession.queue) = 3
    /\ Len(allWords) = 3

====
